---------------------------- MODULE Spec2Model ----------------------------
(***************************************************************************)
(* Model of the vectorization-and-matching engine of the phone             *)
(* recommender: the pre-filter, the exact-constraint scorer, the vector    *)
(* matcher, the phone vectorizer, the demand parsers and match_phones.     *)
(*                                                                         *)
(* Python floats are modelled as exact rationals <<n, d>> in lowest terms  *)
(* with d > 0.  A float division by zero raises ZeroDivisionError in       *)
(* Python; the operators below then yield the marker <<0, 0>>, which every *)
(* caller propagates, so that a raise is an outcome of the model.          *)
(***************************************************************************)
EXTENDS Integers, Sequences, FiniteSets, TLC

VARIABLES
    pc,                 \* which operation has been applied last
    phones,             \* argument: the catalog list
    requirements,       \* argument: a List[SpecificRequirement]
    arg_phone,          \* argument: one PhoneSpec
    arg_budget,         \* argument: a budget descriptor, or None
    arg_demand,         \* argument: a UserDemandVector (19 demand weights)
    arg_vector,         \* argument: a PhonePerformanceVector (19 scores)
    filtered_phones,    \* result of _pre_filter_phones
    prev_filtered,      \* result of the preceding _pre_filter_phones call
    score,              \* result of a scoring function (a rational)
    ret_vector,         \* result of vectorize_phone
    user_input,         \* argument: the request text, a sequence of tokens
    top_n,              \* argument: how many recommendations are wanted
    analysis,           \* result of parse_demand
    ret_demand,         \* result of vectorize_demand
    valid,              \* result of validate_demand
    phones_with_vectors, \* match_phones: the candidates with their vectors
    results,            \* match_phones: the scored candidates before sorting
    ranked_phones,      \* match_phones: the sorted and ranked result list
    recommendations,    \* result of match_phones: ranked_phones[:top_n]
    _phone_vectors_cache \* NewRecommendationEngine: the cached vectors by key

textVars == <<user_input, top_n, analysis, ret_demand, valid,
              phones_with_vectors, results, ranked_phones, recommendations>>

vars == <<pc, phones, requirements, arg_phone, arg_budget, arg_demand,
          arg_vector, filtered_phones, prev_filtered, score, ret_vector,
          textVars, _phone_vectors_cache>>

-----------------------------------------------------------------------------
(* Exact rational arithmetic standing for Python float arithmetic.         *)

Abs(n) == IF n < 0 THEN -n ELSE n

RECURSIVE GCD(_, _)
GCD(a, b) == IF b = 0 THEN a ELSE GCD(b, a % b)

Q(n, d) ==
    LET s == IF d < 0 THEN -1 ELSE 1
        g == GCD(Abs(n), Abs(d))
    IN  <<(s * n) \div g, (s * d) \div g>>

ZeroDivisionError == <<0, 0>>
IsRaised(x) == x[2] = 0

Zero == <<0, 1>>
OneQ == <<1, 1>>
Int2Q(n) == <<n, 1>>

\* common factors are divided out before multiplying, which keeps the
\* intermediate products small
RAdd(x, y) ==
    LET g == GCD(x[2], y[2])
    IN  Q(x[1] * (y[2] \div g) + y[1] * (x[2] \div g), (x[2] \div g) * y[2])
RSub(x, y) == RAdd(x, <<-y[1], y[2]>>)
RMul(x, y) ==
    LET g1 == GCD(Abs(x[1]), y[2])
        g2 == GCD(Abs(y[1]), x[2])
    IN  Q((x[1] \div g1) * (y[1] \div g2), (x[2] \div g2) * (y[2] \div g1))
RDiv(x, y) ==
    IF y[1] = 0 THEN ZeroDivisionError
    ELSE RMul(x, IF y[1] < 0 THEN <<-y[2], -y[1]>> ELSE <<y[2], y[1]>>)
RLe(x, y) ==
    LET g == GCD(x[2], y[2])
    IN  x[1] * (y[2] \div g) <= y[1] * (x[2] \div g)
RLt(x, y) ==
    LET g == GCD(x[2], y[2])
    IN  x[1] * (y[2] \div g) < y[1] * (x[2] \div g)
RAbs(x) == <<Abs(x[1]), x[2]>>
RMax(x, y) == IF RLt(x, y) THEN y ELSE x
RMin(x, y) == IF RLt(y, x) THEN y ELSE x
InUnit(x) == x[2] > 0 /\ RLe(Zero, x) /\ RLe(x, OneQ)


-----------------------------------------------------------------------------
(* PhoneSpec records (database/sample_data.py).  The catalog of the model  *)
(* holds three records of the sample data and three records that reach the *)
(* boundary values of the scoring rules.  The sample data's Chinese names  *)
(* are written in ASCII: "XM13" is the Xiaomi 13 record, whose name holds   *)
(* none of the Latin brand markers, "SD8 Gen2" and "SD8+ Gen1" are its      *)
(* CPU names, which hold no key of the CPU table (see Contains below).      *)

MaxPhones == 2      \* longest catalog list
MaxReqs == 2        \* longest requirement list drawn in Init

PhoneSpec(name, cpu, ram_gb, storage_gb, screen, camera_mp, battery_mah, weight_g, price) ==
    [name |-> name, cpu |-> cpu, ram_gb |-> ram_gb, storage_gb |-> storage_gb,
     screen_size_inch |-> screen, camera_mp |-> camera_mp,
     battery_mah |-> battery_mah, weight_g |-> weight_g, price |-> price]

Xiaomi13 == PhoneSpec("XM13", "SD8 Gen2", 12, 256, Q(159, 25), 50, 4500, 189, 3999)
IPhone14 == PhoneSpec("iPhone 14", "A15", 6, 128, Q(61, 10), 12, 3279, 172, 5999)
RedmiK60 == PhoneSpec("Redmi K60", "SD8+ Gen1", 12, 256, Q(667, 100), 64, 5500, 204, 2499)
GalaxyA == PhoneSpec("Samsung Galaxy A", "Snapdragon 8 Gen 3 for Galaxy", 8, 128, Q(65, 10), 48, 5250, 200, 3000)
HuaweiMax == PhoneSpec("Huawei Max", "", 24, 2048, Q(7, 1), 200, 7000, 230, 9000)
FreePhone == PhoneSpec("OnePlus Mini", "a16", 2, 32, Q(47, 10), 8, 2500, 140, 0)

PhoneSet == {Xiaomi13, IPhone14, RedmiK60, GalaxyA, HuaweiMax, FreePhone}
CatalogPhones == {Xiaomi13, RedmiK60, GalaxyA}

SeqsUpTo(S, n) == UNION {[1..k -> S] : k \in 0..n}
Catalogs == SeqsUpTo(CatalogPhones, MaxPhones)

-----------------------------------------------------------------------------
(* SpecificRequirement (enhanced_demand_parser.py) and the requirement     *)
(* values the parser builds (see _extract_specific_requirements).          *)

RequirementTypes == {"exact", "range", "minimum", "maximum"}

SpecificRequirement(dimension, value, unit, tolerance, requirement_type) ==
    [dimension |-> dimension, value |-> value, unit |-> unit,
     tolerance |-> tolerance, requirement_type |-> requirement_type]

ReqSet ==
    { SpecificRequirement("storage_speed", Int2Q(256), "GB", Zero, "exact"),
      SpecificRequirement("battery_capacity", Int2Q(5000), "mAh", Q(1, 20), "exact"),
      SpecificRequirement("price_value", Int2Q(3500), "yuan", Q(2, 7), "range"),
      SpecificRequirement("price_value", Int2Q(4000), "yuan", Q(1, 4), "range"),
      SpecificRequirement("price_value", Int2Q(5000), "yuan", Q(1, 10), "minimum"),
      SpecificRequirement("price_value", Int2Q(3000), "yuan", Q(1, 10), "maximum"),
      SpecificRequirement("storage_speed", Zero, "GB", Zero, "exact") }

ReqLists == SeqsUpTo(ReqSet, MaxReqs)

-----------------------------------------------------------------------------
(* The pre-filter (enhanced_matching_engine.py).                           *)

_get_phone_value(phone, dimension) ==
    CASE dimension = "storage_speed" -> Int2Q(phone.storage_gb)
      [] dimension = "memory_capacity" -> Int2Q(phone.ram_gb)
      [] dimension = "screen_size" -> phone.screen_size_inch
      [] dimension = "battery_capacity" -> Int2Q(phone.battery_mah)
      [] dimension = "camera_quality" -> Int2Q(phone.camera_mp)
      [] dimension = "price_value" -> Int2Q(phone.price)
      [] OTHER -> Zero

\* mutant: the tolerance comparison of exact requirements made strict
_check_requirement_match_strict(phone, requirement) ==
    LET phone_value == _get_phone_value(phone, requirement.dimension)
        tolerance == RMul(requirement.tolerance, requirement.value)
        diff == RAbs(RSub(phone_value, requirement.value))
    IN  CASE requirement.requirement_type = "exact" -> RLt(diff, tolerance)
          [] requirement.requirement_type = "range" -> RLe(diff, tolerance)
          [] requirement.requirement_type = "minimum" -> RLe(requirement.value, phone_value)
          [] requirement.requirement_type = "maximum" -> RLe(phone_value, requirement.value)
          [] OTHER -> TRUE

\* mutant: a maximum requirement lets every phone through
_check_requirement_match_no_maximum(phone, requirement) ==
    LET phone_value == _get_phone_value(phone, requirement.dimension)
        tolerance == RMul(requirement.tolerance, requirement.value)
        diff == RAbs(RSub(phone_value, requirement.value))
    IN  CASE requirement.requirement_type = "exact" -> RLe(diff, tolerance)
          [] requirement.requirement_type = "range" -> RLe(diff, tolerance)
          [] requirement.requirement_type = "minimum" -> RLe(requirement.value, phone_value)
          [] OTHER -> TRUE

_check_requirement_match(phone, requirement) ==
    LET phone_value == _get_phone_value(phone, requirement.dimension)
        tolerance == RMul(requirement.tolerance, requirement.value)
        diff == RAbs(RSub(phone_value, requirement.value))
    IN  CASE requirement.requirement_type = "exact" -> RLe(diff, tolerance)
          [] requirement.requirement_type = "range" -> RLe(diff, tolerance)
          [] requirement.requirement_type = "minimum" -> RLe(requirement.value, phone_value)
          [] requirement.requirement_type = "maximum" -> RLe(phone_value, requirement.value)
          [] OTHER -> TRUE

\* the inner loop of _pre_filter_phones: meets_all_requirements, with its break
RECURSIVE MeetsAllRequirements(_, _, _)
MeetsAllRequirements(phone, reqs, i) ==
    IF i > Len(reqs) THEN TRUE
    ELSE IF ~_check_requirement_match(phone, reqs[i]) THEN FALSE
    ELSE MeetsAllRequirements(phone, reqs, i + 1)

\* mutant of the inner loop: a phone is kept as soon as one requirement matches
RECURSIVE MeetsAnyRequirement(_, _, _)
MeetsAnyRequirement(phone, reqs, i) ==
    IF i > Len(reqs) THEN FALSE
    ELSE IF _check_requirement_match(phone, reqs[i]) THEN TRUE
    ELSE MeetsAnyRequirement(phone, reqs, i + 1)

RECURSIVE PreFilterLoop(_, _, _, _)
PreFilterLoop(ps, reqs, i, acc) ==
    IF i > Len(ps) THEN acc
    ELSE PreFilterLoop(ps, reqs, i + 1,
            IF MeetsAllRequirements(ps[i], reqs, 1) THEN Append(acc, ps[i]) ELSE acc)

RECURSIVE PreFilterAnyLoop(_, _, _, _)
PreFilterAnyLoop(ps, reqs, i, acc) ==
    IF i > Len(ps) THEN acc
    ELSE PreFilterAnyLoop(ps, reqs, i + 1,
            IF MeetsAnyRequirement(ps[i], reqs, 1) THEN Append(acc, ps[i]) ELSE acc)

_pre_filter_phones_any(ps, reqs) ==
    IF reqs = <<>> THEN ps ELSE PreFilterAnyLoop(ps, reqs, 1, <<>>)

_pre_filter_phones(ps, reqs) ==
    IF reqs = <<>> THEN ps ELSE PreFilterLoop(ps, reqs, 1, <<>>)

-----------------------------------------------------------------------------
(* Specification of the pre-filter: Init draws a catalog and a requirement *)
(* list, PreFilter applies _pre_filter_phones, PreFilterMore applies it    *)
(* again to the list extended by one requirement.                          *)

NoResult == <<>>
NoPhone == "no phone"
None == "None"
NoVector == <<>>

\* self._phone_vectors_cache = {}: a function from keys to vectors
EmptyCache == <<>>

\* the text-level variables of an operation that takes no request text
NoText ==
    /\ user_input = <<>>
    /\ top_n = 0
    /\ analysis = None
    /\ ret_demand = None
    /\ valid = FALSE
    /\ phones_with_vectors = NoResult
    /\ results = NoResult
    /\ ranked_phones = NoResult
    /\ recommendations = NoResult

InitFilter ==
    /\ pc = "init"
    /\ _phone_vectors_cache = EmptyCache
    /\ NoText
    /\ phones \in Catalogs
    /\ requirements \in ReqLists
    /\ arg_phone = NoPhone
    /\ arg_budget = None
    /\ arg_demand = NoVector
    /\ arg_vector = NoVector
    /\ ret_vector = NoVector
    /\ filtered_phones = NoResult
    /\ prev_filtered = NoResult
    /\ score = Zero

PreFilter ==
    /\ pc = "init"
    /\ pc' = "filtered"
    /\ filtered_phones' = _pre_filter_phones(phones, requirements)
    /\ UNCHANGED _phone_vectors_cache
    /\ UNCHANGED <<phones, requirements, arg_phone, arg_budget, arg_demand,
                   arg_vector, prev_filtered, score, ret_vector>>
    /\ UNCHANGED textVars

PreFilterMore ==
    /\ pc = "filtered"
    /\ \E r \in ReqSet :
          /\ requirements' = Append(requirements, r)
          /\ filtered_phones' = _pre_filter_phones(phones, requirements')
    /\ prev_filtered' = filtered_phones
    /\ pc' = "extended"
    /\ UNCHANGED _phone_vectors_cache
    /\ UNCHANGED <<phones, arg_phone, arg_budget, arg_demand, arg_vector, score,
                   ret_vector>>
    /\ UNCHANGED textVars

NextFilter == PreFilter \/ PreFilterMore

SpecFilter == InitFilter /\ [][NextFilter]_vars


-----------------------------------------------------------------------------
(* Claims about the pre-filter.                                            *)

Elements(seq) == {seq[i] : i \in 1..Len(seq)}

\* satisfaction of one requirement as the contract of the pre-filter states it
ContractSatisfied(phone, r) ==
    LET v == _get_phone_value(phone, r.dimension)
    IN  IF r.requirement_type \in {"exact", "range"}
        THEN RLe(RAbs(RSub(v, r.value)), RMul(r.tolerance, r.value))
        ELSE IF r.requirement_type = "minimum" THEN ~RLt(v, r.value)
        ELSE ~RLt(r.value, v)

ContractFilter(ps, reqs) ==
    LET Keep(p) == \A i \in 1..Len(reqs) : ContractSatisfied(p, reqs[i])
    IN  SelectSeq(ps, Keep)

\* C1: _pre_filter_phones returns exactly the phones, in catalog order, that
\* satisfy every requirement (exact/range: |phone value - value| <= tolerance
\* * value; minimum: phone value >= value; maximum: phone value <= value), so
\* the result is a sub-list of the catalog.
C1_PreFilterExact ==
    pc \in {"filtered", "extended"} =>
        /\ filtered_phones = ContractFilter(phones, requirements)
        /\ Len(filtered_phones) <= Len(phones)
        /\ Elements(filtered_phones) \subseteq Elements(phones)

\* a catalog of two phones of which the second alone passes two requirements
C1_Witness ==
    /\ pc = "filtered"
    /\ Len(requirements) = 2
    /\ requirements[1] # requirements[2]
    /\ Len(phones) = 2
    /\ filtered_phones = <<phones[2]>>
    /\ phones[1] # phones[2]

\* C3: pre-filtering is monotonic: the phones returned for R + [r] are among
\* the phones returned for R, and are no more numerous.
C3_PreFilterMonotonic ==
    pc = "extended" =>
        /\ Elements(filtered_phones) \subseteq Elements(prev_filtered)
        /\ Len(filtered_phones) <= Len(prev_filtered)

\* a non-empty requirement list whose extension removes a phone and keeps one
C3_Witness ==
    /\ pc = "extended"
    /\ Len(requirements) >= 2
    /\ Len(filtered_phones) = 1
    /\ Len(prev_filtered) = 2


-----------------------------------------------------------------------------
(* The exact-constraint scorer (enhanced_matching_engine.py).              *)

\* the graded score of an exact or range requirement: inner is the decay
\* inside the tolerance band, base and slope the decay outside of it
GradedScore(phone_value, req, inner, base, slope) ==
    LET computed == RMul(req.tolerance, req.value)
        tolerance == IF RLe(computed, Zero) THEN RMul(req.value, Q(1, 10)) ELSE computed
        diff == RAbs(RSub(phone_value, req.value))
    IN  IF RLe(diff, tolerance)
        THEN IF tolerance[1] = 0 THEN ZeroDivisionError
             ELSE RSub(OneQ, RMul(RDiv(diff, tolerance), inner))
        ELSE IF req.value[1] = 0 THEN ZeroDivisionError
             ELSE RMax(Zero, RSub(base, RMul(RDiv(RSub(diff, tolerance), req.value), slope)))

\* mutant: a range requirement graded with the figures of an exact one
RequirementScore_range_as_exact(phone, req) ==
    LET phone_value == _get_phone_value(phone, req.dimension)
    IN  CASE req.requirement_type \in {"exact", "range"} ->
               GradedScore(phone_value, req, Q(3, 10), Q(7, 10), Q(1, 2))
          [] req.requirement_type = "minimum" ->
               IF RLe(req.value, phone_value) THEN OneQ
               ELSE IF RLt(Zero, req.value)
                    THEN RMax(Zero, RDiv(phone_value, req.value)) ELSE Zero
          [] req.requirement_type = "maximum" ->
               IF RLe(phone_value, req.value) THEN OneQ
               ELSE IF RLt(Zero, phone_value)
                    THEN RMax(Zero, RDiv(req.value, phone_value)) ELSE Zero
          [] OTHER -> Q(1, 2)

\* the score of one requirement, the body of the loop of
\* _calculate_exact_match_score
RequirementScore(phone, req) ==
    LET phone_value == _get_phone_value(phone, req.dimension)
    IN  CASE req.requirement_type = "exact" ->
               GradedScore(phone_value, req, Q(3, 10), Q(7, 10), Q(1, 2))
          [] req.requirement_type = "range" ->
               GradedScore(phone_value, req, Q(2, 10), Q(8, 10), Q(4, 10))
          [] req.requirement_type = "minimum" ->
               IF RLe(req.value, phone_value) THEN OneQ
               ELSE IF RLt(Zero, req.value)
                    THEN RMax(Zero, RDiv(phone_value, req.value)) ELSE Zero
          [] req.requirement_type = "maximum" ->
               IF RLe(phone_value, req.value) THEN OneQ
               ELSE IF RLt(Zero, phone_value)
                    THEN RMax(Zero, RDiv(req.value, phone_value)) ELSE Zero
          [] OTHER -> Q(1, 2)

RECURSIVE ExactScoreLoop(_, _, _, _, _)
ExactScoreLoop(phone, reqs, i, total_score, total_weight) ==
    IF i > Len(reqs)
    THEN IF RLt(Zero, total_weight) THEN RDiv(total_score, total_weight) ELSE Q(1, 2)
    ELSE LET s == RequirementScore(phone, reqs[i])
             weight == OneQ
         IN  IF IsRaised(s) THEN ZeroDivisionError
             ELSE ExactScoreLoop(phone, reqs, i + 1,
                                 RAdd(total_score, RMul(s, weight)),
                                 RAdd(total_weight, weight))

_calculate_exact_match_score(phone, reqs) ==
    IF reqs = <<>> THEN Q(1, 2) ELSE ExactScoreLoop(phone, reqs, 1, Zero, Zero)

\* matching_config of EnhancedMatchingEngine
exact_match_bonus == Q(2, 10)
range_match_bonus == Q(1, 10)
minimum_requirement_penalty == Q(5, 10)
maximum_requirement_penalty == Q(3, 10)
vector_weight == Q(7, 10)
exact_weight == Q(3, 10)

RECURSIVE BonusLoop(_, _, _, _)
BonusLoop(final_score, phone, reqs, i) ==
    IF i > Len(reqs) THEN final_score
    ELSE LET req == reqs[i]
             phone_value == _get_phone_value(phone, req.dimension)
             tolerance == RMul(req.tolerance, req.value)
             near == RLe(RAbs(RSub(phone_value, req.value)), RMul(tolerance, Q(1, 2)))
             next ==
                CASE req.requirement_type = "exact" ->
                       IF near THEN RAdd(final_score, exact_match_bonus) ELSE final_score
                  [] req.requirement_type = "range" ->
                       IF near THEN RAdd(final_score, range_match_bonus) ELSE final_score
                  [] req.requirement_type = "minimum" ->
                       IF RLt(phone_value, req.value)
                       THEN RMul(final_score, RSub(OneQ, minimum_requirement_penalty))
                       ELSE final_score
                  [] req.requirement_type = "maximum" ->
                       IF RLt(req.value, phone_value)
                       THEN RMul(final_score, RSub(OneQ, maximum_requirement_penalty))
                       ELSE final_score
                  [] OTHER -> final_score
         IN  BonusLoop(next, phone, reqs, i + 1)

\* mutant: the final score is returned without the clamp to [0,1]
_apply_bonuses_and_penalties_unclamped(base_score, phone, reqs) ==
    BonusLoop(base_score, phone, reqs, 1)

_apply_bonuses_and_penalties(base_score, phone, reqs) ==
    RMin(RMax(BonusLoop(base_score, phone, reqs, 1), Zero), OneQ)

-----------------------------------------------------------------------------
(* Specification of the exact-constraint scorer: Init draws a phone and a  *)
(* requirement list, ExactMatchScore applies _calculate_exact_match_score. *)

InitExact ==
    /\ pc = "init"
    /\ _phone_vectors_cache = EmptyCache
    /\ NoText
    /\ phones = <<>>
    /\ requirements \in ReqLists
    /\ arg_phone \in CatalogPhones
    /\ arg_budget = None
    /\ arg_demand = NoVector
    /\ arg_vector = NoVector
    /\ filtered_phones = NoResult
    /\ prev_filtered = NoResult
    /\ score = Zero
    /\ ret_vector = NoVector

ExactMatchScore ==
    /\ pc = "init"
    /\ pc' = "exact_scored"
    /\ score' = _calculate_exact_match_score(arg_phone, requirements)
    /\ UNCHANGED _phone_vectors_cache
    /\ UNCHANGED <<phones, requirements, arg_phone, arg_budget, arg_demand,
                   arg_vector, filtered_phones, prev_filtered, ret_vector>>
    /\ UNCHANGED textVars

NextExact == ExactMatchScore

SpecExact == InitExact /\ [][NextExact]_vars

\* the score the contract gives a minimum or maximum requirement
ContractBoundScore(phone, r) ==
    LET v == _get_phone_value(phone, r.dimension)
    IN  IF r.requirement_type = "minimum"
        THEN IF RLe(r.value, v) THEN OneQ ELSE RDiv(v, r.value)
        ELSE IF RLe(v, r.value) THEN OneQ ELSE RDiv(r.value, v)

RECURSIVE SumQ(_, _)
SumQ(f, n) == IF n = 0 THEN Zero ELSE RAdd(SumQ(f, n - 1), f[n])

\* C8: _calculate_exact_match_score returns a value in [0,1] for every phone
\* and requirement list, 0.5 for the empty list, and otherwise the
\* equal-weighted mean of the per-requirement scores, a minimum/maximum
\* requirement scoring 1.0 when satisfied and else the ratio achieved/required
\* (or its inverse).
C8_ExactScoreInUnit ==
    pc = "exact_scored" =>
        /\ InUnit(score)
        /\ requirements = <<>> => score = Q(1, 2)
        /\ (/\ requirements # <<>>
            /\ \A i \in 1..Len(requirements) :
                  requirements[i].requirement_type \in {"minimum", "maximum"})
           => score = RDiv(SumQ([i \in 1..Len(requirements) |->
                                    ContractBoundScore(arg_phone, requirements[i])],
                                Len(requirements)),
                           Int2Q(Len(requirements)))

\* the same statement for the requirement lists that hold no value of 0
ExactScoreInUnitForPositiveValues ==
    (\A i \in 1..Len(requirements) : RLt(Zero, requirements[i].value))
        => C8_ExactScoreInUnit


-----------------------------------------------------------------------------
(* The vector matcher (vector_matching.py).  A PhonePerformanceVector and  *)
(* a UserDemandVector are functions from the 19 dimensions to rationals;   *)
(* DimSeq is the key order of their to_dict().                             *)

DimSeq ==
    << "cpu_performance", "memory_capacity", "storage_speed", "gpu_performance",
       "camera_quality", "camera_features", "battery_capacity", "charging_speed",
       "screen_quality", "screen_size", "weight_portability", "size_portability",
       "build_quality", "design_appeal", "price_value", "heat_control",
       "network_stability", "software_optimization", "durability" >>

Dims == Elements(DimSeq)

\* matching_config of VectorMatchingEngine
min_overlap_threshold == Q(1, 10)
bonus_for_perfect_match == Q(1, 10)

\* the loop of calculate_match_score over the dimensions: the accumulators
\* total_score, total_weight and overlap_count after the first i dimensions
RECURSIVE MatchLoop(_, _, _)
MatchLoop(phone_scores, demand_weights, i) ==
    IF i = 0 THEN [total_score |-> Zero, total_weight |-> Zero, overlap_count |-> 0]
    ELSE LET acc == MatchLoop(phone_scores, demand_weights, i - 1)
             phone_score == phone_scores[DimSeq[i]]
             demand_weight == demand_weights[DimSeq[i]]
         IN  IF RLt(min_overlap_threshold, demand_weight)
             THEN [total_score |-> RAdd(acc.total_score, RMul(phone_score, demand_weight)),
                   total_weight |-> RAdd(acc.total_weight, demand_weight),
                   overlap_count |-> acc.overlap_count + 1]
             ELSE acc

\* mutant: the score is normalised by the number of overlapping dimensions
calculate_match_score_by_count(phone_vector, demand_vector) ==
    LET acc == MatchLoop(phone_vector, demand_vector, Len(DimSeq))
    IN  IF RLt(Zero, acc.total_weight)
        THEN LET normalized_score == RDiv(acc.total_score, Int2Q(acc.overlap_count))
                 bonus == IF acc.overlap_count >= 5 THEN bonus_for_perfect_match ELSE Zero
             IN  RMin(RAdd(normalized_score, bonus), OneQ)
        ELSE Zero

calculate_match_score(phone_vector, demand_vector) ==
    LET acc == MatchLoop(phone_vector, demand_vector, Len(DimSeq))
    IN  IF RLt(Zero, acc.total_weight)
        THEN LET normalized_score == RDiv(acc.total_score, acc.total_weight)
                 bonus == IF acc.overlap_count >= 5 THEN bonus_for_perfect_match ELSE Zero
             IN  RMin(RAdd(normalized_score, bonus), OneQ)
        ELSE Zero

-----------------------------------------------------------------------------
(* Specification of the vector matcher: Init draws a demand vector and a   *)
(* performance vector with components in [0,1], CalculateMatchScore        *)
(* applies calculate_match_score.  A drawn vector holds one weight on its  *)
(* first k dimensions, a second weight on the next m dimensions and 0.0    *)
(* elsewhere.                                                              *)

MaxBlock == 3       \* longest block of equal weights in a drawn vector

WeightSet == {Q(1, 20), Q(1, 10), Q(1, 2), Q(9, 10), OneQ}

BlockVector(k, w1, m, w2) ==
    [x \in Dims |->
        LET i == CHOOSE j \in 1..Len(DimSeq) : DimSeq[j] = x
        IN  IF i <= k THEN w1 ELSE IF i <= k + m THEN w2 ELSE Zero]

DrawnVectors ==
    {BlockVector(k, w1, m, w2) : k \in 0..MaxBlock, m \in 0..MaxBlock,
                                 w1 \in WeightSet, w2 \in WeightSet}

ConstantVector(c) == [x \in Dims |-> c]

InitScore ==
    /\ pc = "init"
    /\ _phone_vectors_cache = EmptyCache
    /\ NoText
    /\ phones = <<>>
    /\ requirements = <<>>
    /\ arg_phone = NoPhone
    /\ arg_budget = None
    /\ arg_demand \in DrawnVectors
    /\ arg_vector \in {arg_demand, ConstantVector(Zero), ConstantVector(Q(1, 2)),
                       ConstantVector(Q(19, 20)), ConstantVector(OneQ),
                       BlockVector(2, OneQ, 2, Q(1, 2))}
    /\ filtered_phones = NoResult
    /\ prev_filtered = NoResult
    /\ score = Zero
    /\ ret_vector = NoVector

CalculateMatchScore ==
    /\ pc = "init"
    /\ pc' = "match_scored"
    /\ score' = calculate_match_score(arg_vector, arg_demand)
    /\ UNCHANGED _phone_vectors_cache
    /\ UNCHANGED <<phones, requirements, arg_phone, arg_budget, arg_demand,
                   arg_vector, filtered_phones, prev_filtered, ret_vector>>
    /\ UNCHANGED textVars

NextScore == CalculateMatchScore

SpecScore == InitScore /\ [][NextScore]_vars

\* the dimensions that take part in the score: demand weight above 0.1
Participating(d) == {x \in Dims : RLt(Q(1, 10), d[x])}

RECURSIVE SumOver(_, _)
SumOver(f, S) ==
    IF S = {} THEN Zero
    ELSE LET x == CHOOSE y \in S : TRUE IN RAdd(f[x], SumOver(f, S \ {x}))

\* C6: calculate_match_score(p, d) is 0.0 when no dimension has d > 0.1, and
\* otherwise min(1, sum(p*d)/sum(d) + b) over the dimensions with d > 0.1,
\* with b = 0.1 when at least 5 dimensions take part and 0 otherwise; the
\* result lies in [0,1].
C6_MatchScoreFormula ==
    pc = "match_scored" =>
        LET S == Participating(arg_demand)
            pd == [x \in Dims |-> RMul(arg_vector[x], arg_demand[x])]
            b == IF Cardinality(S) >= 5 THEN Q(1, 10) ELSE Zero
        IN  /\ InUnit(score)
            /\ S = {} => score = Zero
            /\ S # {} => score = RMin(OneQ, RAdd(RDiv(SumOver(pd, S), SumOver(arg_demand, S)), b))

\* five participating dimensions, the bonus applies without reaching the clamp
C6_Witness ==
    /\ pc = "match_scored"
    /\ Cardinality(Participating(arg_demand)) = 5
    /\ arg_vector # arg_demand
    /\ RLt(Q(1, 10), score) /\ RLt(score, OneQ)

\* C7 as stated: an item whose performance vector equals the demand weights
\* (at least one of them nonzero) gets a vector score of at least 0.9.
C7_EqualPatternAtLeast09 ==
    (/\ pc = "match_scored"
     /\ arg_vector = arg_demand
     /\ \E x \in Dims : arg_demand[x] # Zero)
        => RLe(Q(9, 10), score)

\* C7 amended: the same, for the demand vectors whose nonzero weights are all
\* at least 0.9.
C7_EqualPatternHighWeights ==
    (/\ pc = "match_scored"
     /\ arg_vector = arg_demand
     /\ \E x \in Dims : arg_demand[x] # Zero
     /\ \A x \in Dims : arg_demand[x] # Zero => RLe(Q(9, 10), arg_demand[x]))
        => RLe(Q(9, 10), score)

\* weights 0.9 and 1.0 on four dimensions, matched by an equal vector
C7_Witness ==
    /\ pc = "match_scored"
    /\ arg_vector = arg_demand
    /\ Cardinality({x \in Dims : arg_demand[x] = Q(9, 10)}) = 2
    /\ Cardinality({x \in Dims : arg_demand[x] = OneQ}) = 2
    /\ RLt(score, OneQ)


-----------------------------------------------------------------------------
(* The phone vectorizer (vectorization_engine.py).                         *)

\* Python's `marker in phone.name` for the names of PhoneSet and the brand
\* markers the vectorizer looks for
NameContains(name, marker) ==
    marker \in (CASE name = "iPhone 14" -> {"iPhone"}
                  [] name = "Redmi K60" -> {"Redmi"}
                  [] name = "Samsung Galaxy A" -> {"Samsung"}
                  [] name = "Huawei Max" -> {"Huawei"}
                  [] name = "OnePlus Mini" -> {"OnePlus"}
                  [] OTHER -> {})

\* self.cpu_scores in insertion order
cpu_scores ==
    << <<"A17 Pro", 95>>, <<"A16", 90>>, <<"A15", 85>>, <<"A14", 80>>, <<"A13", 75>>,
       <<"Snapdragon 8 Gen 3", 92>>, <<"Snapdragon 8 Gen 2", 88>>,
       <<"Snapdragon 8 Gen 1", 85>>, <<"Snapdragon 7+ Gen 2", 80>>,
       <<"Snapdragon 7 Gen 2", 75>>, <<"Snapdragon 6 Gen 1", 70>>,
       <<"Dimensity 9300", 90>>, <<"Dimensity 9200", 85>>, <<"Dimensity 8200", 80>>,
       <<"Dimensity 7200", 75>>, <<"Dimensity 6100", 70>>,
       <<"Kirin 9000", 85>>, <<"Kirin 820", 75>>, <<"Exynos 2200", 85>>,
       <<"Exynos 2100", 80>> >>

\* Python's a.lower() in b.lower() for a table key and a CPU name of PhoneSet
\* (either way round): the empty name lies in every key, "a16" equals the
\* lowered key "A16", and the Galaxy CPU name holds "snapdragon 8 gen 3"
LowerContains(a, b) ==
    \/ a = ""
    \/ a = b
    \/ <<a, b>> \in { <<"A16", "a16">>, <<"a16", "A16">>,
                      <<"Snapdragon 8 Gen 3", "Snapdragon 8 Gen 3 for Galaxy">> }

RECURSIVE CpuFuzzy(_, _)
CpuFuzzy(cpu, i) ==
    IF i > Len(cpu_scores) THEN Q(7, 10)
    ELSE IF LowerContains(cpu_scores[i][1], cpu) \/ LowerContains(cpu, cpu_scores[i][1])
         THEN Q(cpu_scores[i][2], 100)
         ELSE CpuFuzzy(cpu, i + 1)

_calculate_cpu_score(cpu) ==
    IF \E i \in 1..Len(cpu_scores) : cpu_scores[i][1] = cpu
    THEN Q(cpu_scores[CHOOSE i \in 1..Len(cpu_scores) : cpu_scores[i][1] = cpu][2], 100)
    ELSE CpuFuzzy(cpu, 1)

memory_scores == (4 :> 60) @@ (6 :> 70) @@ (8 :> 80) @@ (12 :> 90) @@ (16 :> 95)
storage_scores == (64 :> 50) @@ (128 :> 70) @@ (256 :> 85) @@ (512 :> 95) @@ (1024 :> 100)
screen_size_scores ==
    (Q(5, 1) :> 95) @@ (Q(55, 10) :> 90) @@ (Q(6, 1) :> 85) @@ (Q(61, 10) :> 80) @@
    (Q(63, 10) :> 75) @@ (Q(65, 10) :> 70) @@ (Q(67, 10) :> 65) @@ (Q(68, 10) :> 60)
weight_scores ==
    (150 :> 95) @@ (160 :> 90) @@ (170 :> 85) @@ (180 :> 80) @@ (190 :> 75) @@
    (200 :> 70) @@ (210 :> 65) @@ (220 :> 60)
battery_scores ==
    (3000 :> 60) @@ (3500 :> 70) @@ (4000 :> 80) @@ (4500 :> 85) @@ (5000 :> 90) @@
    (5500 :> 95) @@ (6000 :> 100)
camera_scores ==
    (12 :> 70) @@ (16 :> 75) @@ (20 :> 80) @@ (24 :> 85) @@ (32 :> 90) @@ (48 :> 95) @@
    (50 :> 95) @@ (64 :> 100) @@ (108 :> 100)

\* the look-up with the single default 0.7 for every value off the table
TableScore_fixed_default(table, v, hi, above, lo, below, between) ==
    IF v \in DOMAIN table THEN Q(table[v], 100) ELSE Q(7, 10)

\* the shape shared by the table look-ups: the table entry, else a score for
\* a value above hi, a score for a value below lo, else the in-between score
TableScore(table, v, hi, above, lo, below, between) ==
    IF v \in DOMAIN table THEN Q(table[v], 100)
    ELSE IF v > hi THEN above
    ELSE IF v < lo THEN below
    ELSE between

_calculate_memory_score(ram_gb) ==
    TableScore(memory_scores, ram_gb, 16, Q(95, 100), 4, Q(6, 10), Q(7, 10))

_calculate_storage_score(storage_gb) ==
    TableScore(storage_scores, storage_gb, 1024, OneQ, 64, Q(5, 10), Q(7, 10))

_calculate_camera_score(camera_mp) ==
    TableScore(camera_scores, camera_mp, 108, OneQ, 12, Q(7, 10), Q(8, 10))

_calculate_camera_features_score(phone) ==
    LET base_score == _calculate_camera_score(phone.camera_mp)
        brand_bonus ==
            IF NameContains(phone.name, "iPhone") \/ NameContains(phone.name, "Apple")
            THEN Q(1, 10)
            ELSE IF NameContains(phone.name, "Samsung") THEN Q(8, 100)
            ELSE IF NameContains(phone.name, "Huawei") THEN Q(8, 100)
            ELSE Zero
    IN  RMin(RAdd(base_score, brand_bonus), OneQ)

_calculate_battery_score(battery_mah) ==
    TableScore(battery_scores, battery_mah, 6000, OneQ, 3000, Q(6, 10), Q(8, 10))

_calculate_charging_speed_score(phone) ==
    IF NameContains(phone.name, "iPhone") THEN Q(6, 10)
    ELSE IF NameContains(phone.name, "Huawei") THEN Q(85, 100)
    ELSE IF NameContains(phone.name, "Xiaomi") \/ NameContains(phone.name, "Redmi")
         THEN Q(9, 10)
    ELSE IF NameContains(phone.name, "OPPO") \/ NameContains(phone.name, "OnePlus")
         THEN Q(9, 10)
    ELSE Q(7, 10)

_calculate_screen_quality_score(phone) ==
    IF NameContains(phone.name, "iPhone") THEN Q(9, 10)
    ELSE IF NameContains(phone.name, "Samsung") THEN Q(95, 100)
    ELSE IF NameContains(phone.name, "Huawei") THEN Q(85, 100)
    ELSE Q(8, 10)

_calculate_screen_size_score(screen_size) ==
    IF screen_size \in DOMAIN screen_size_scores
    THEN Q(screen_size_scores[screen_size], 100)
    ELSE IF RLt(Q(68, 10), screen_size) THEN Q(6, 10)
    ELSE IF RLt(screen_size, Q(5, 1)) THEN Q(95, 100)
    ELSE Q(8, 10)

_calculate_weight_score(weight_g) ==
    TableScore(weight_scores, weight_g, 220, Q(6, 10), 150, Q(95, 100), Q(8, 10))

_calculate_size_score(screen_size) == _calculate_screen_size_score(screen_size)

Clamp01(x) == RMin(RMax(x, Zero), OneQ)

_calculate_build_quality_score(phone) ==
    LET brand == IF NameContains(phone.name, "iPhone") THEN Q(95, 100)
                 ELSE IF NameContains(phone.name, "Samsung") THEN Q(9, 10)
                 ELSE IF NameContains(phone.name, "Huawei") THEN Q(85, 100)
                 ELSE Q(8, 10)
        base_score == IF phone.price > 8000 THEN RAdd(brand, Q(1, 10))
                      ELSE IF phone.price < 2000 THEN RSub(brand, Q(1, 10))
                      ELSE brand
    IN  Clamp01(base_score)

_calculate_design_appeal_score(phone) ==
    LET brand == IF NameContains(phone.name, "iPhone") THEN Q(9, 10)
                 ELSE IF NameContains(phone.name, "Samsung") THEN Q(85, 100)
                 ELSE IF NameContains(phone.name, "Huawei") THEN Q(8, 10)
                 ELSE Q(8, 10)
        base_score == IF phone.price > 6000 THEN RAdd(brand, Q(1, 10)) ELSE brand
    IN  Clamp01(base_score)

\* mutant: the performance-per-price ratio returned without its final clamp
_calculate_traditional_price_score_unclamped(phone) ==
    LET performance_score ==
            RAdd(RAdd(RAdd(RAdd(RMul(_calculate_cpu_score(phone.cpu), Q(3, 10)),
                                RMul(_calculate_memory_score(phone.ram_gb), Q(2, 10))),
                           RMul(_calculate_camera_score(phone.camera_mp), Q(2, 10))),
                      RMul(_calculate_battery_score(phone.battery_mah), Q(15, 100))),
                 RMul(_calculate_storage_score(phone.storage_gb), Q(15, 100)))
        price_normalized == Q(phone.price, 10000)
    IN  RDiv(performance_score, price_normalized)

_calculate_traditional_price_score(phone) ==
    LET performance_score ==
            RAdd(RAdd(RAdd(RAdd(RMul(_calculate_cpu_score(phone.cpu), Q(3, 10)),
                                RMul(_calculate_memory_score(phone.ram_gb), Q(2, 10))),
                           RMul(_calculate_camera_score(phone.camera_mp), Q(2, 10))),
                      RMul(_calculate_battery_score(phone.battery_mah), Q(15, 100))),
                 RMul(_calculate_storage_score(phone.storage_gb), Q(15, 100)))
        price_normalized == Q(phone.price, 10000)
        value_score == RDiv(performance_score, price_normalized)
    IN  IF IsRaised(value_score) THEN ZeroDivisionError ELSE Clamp01(value_score)


\* A budget descriptor: the dict built by the budget extractors, or None
NoBudgetGiven == [is_none |-> TRUE]

Budget(target_price, min_budget, max_budget, tolerance, has_budget) ==
    [is_none |-> FALSE, target_price |-> target_price, min_budget |-> min_budget,
     max_budget |-> max_budget, tolerance |-> tolerance, has_budget |-> has_budget]

\* _calculate_price_value_score without the max(0.0, .) floors
_calculate_price_value_score_unfloored(phone, user_budget) ==
    IF phone.price <= 0 THEN Q(1, 2)
    ELSE IF user_budget.is_none THEN _calculate_traditional_price_score(phone)
    ELSE LET target_price == user_budget.target_price
             min_budget == user_budget.min_budget
             max_budget == user_budget.max_budget
             tolerance == user_budget.tolerance
             price == Int2Q(phone.price)
         IN  IF RLt(Zero, target_price)
             THEN LET price_diff == RAbs(RSub(price, target_price))
                      price_ratio == RDiv(price_diff, target_price)
                  IN  IF RLe(price_ratio, tolerance)
                      THEN IF tolerance[1] = 0 THEN ZeroDivisionError
                           ELSE RSub(OneQ, RMul(RDiv(price_ratio, tolerance), Q(3, 10)))
                      ELSE RSub(Q(7, 10), RMul(RSub(price_ratio, tolerance), Q(1, 2)))
             ELSE IF RLt(Zero, min_budget) /\ RLt(Zero, max_budget)
             THEN IF RLe(min_budget, price) /\ RLe(price, max_budget)
                  THEN LET budget_center == RDiv(RAdd(min_budget, max_budget), Int2Q(2))
                           price_diff == RAbs(RSub(price, budget_center))
                           budget_range == RSub(max_budget, min_budget)
                       IN  IF RLt(Zero, budget_range)
                           THEN Clamp01(RSub(OneQ, RDiv(price_diff,
                                                        RDiv(budget_range, Int2Q(2)))))
                           ELSE OneQ
                  ELSE IF RLt(price, min_budget)
                       THEN RSub(Q(1, 2),
                               RMul(RDiv(RSub(min_budget, price), min_budget), Q(3, 10)))
                       ELSE RSub(Q(1, 2),
                               RMul(RDiv(RSub(price, max_budget), max_budget), Q(1, 2)))
             ELSE _calculate_traditional_price_score(phone)

\* mutant: inside the band the score falls by 0.3 per unit of price_ratio
_calculate_price_value_score_slow_inside(phone, user_budget) ==
    IF phone.price <= 0 THEN Q(1, 2)
    ELSE IF user_budget.is_none THEN _calculate_traditional_price_score(phone)
    ELSE LET target_price == user_budget.target_price
             min_budget == user_budget.min_budget
             max_budget == user_budget.max_budget
             tolerance == user_budget.tolerance
             price == Int2Q(phone.price)
         IN  IF RLt(Zero, target_price)
             THEN LET price_diff == RAbs(RSub(price, target_price))
                      price_ratio == RDiv(price_diff, target_price)
                  IN  IF RLe(price_ratio, tolerance)
                      THEN IF tolerance[1] = 0 THEN ZeroDivisionError
                           ELSE RSub(OneQ, RMul(price_ratio, Q(3, 10)))
                      ELSE RMax(Zero, RSub(Q(7, 10),
                                           RMul(RSub(price_ratio, tolerance), Q(1, 2))))
             ELSE IF RLt(Zero, min_budget) /\ RLt(Zero, max_budget)
             THEN IF RLe(min_budget, price) /\ RLe(price, max_budget)
                  THEN LET budget_center == RDiv(RAdd(min_budget, max_budget), Int2Q(2))
                           price_diff == RAbs(RSub(price, budget_center))
                           budget_range == RSub(max_budget, min_budget)
                       IN  IF RLt(Zero, budget_range)
                           THEN Clamp01(RSub(OneQ, RDiv(price_diff,
                                                        RDiv(budget_range, Int2Q(2)))))
                           ELSE OneQ
                  ELSE IF RLt(price, min_budget)
                       THEN RMax(Zero, RSub(Q(1, 2),
                               RMul(RDiv(RSub(min_budget, price), min_budget), Q(3, 10))))
                       ELSE RMax(Zero, RSub(Q(1, 2),
                               RMul(RDiv(RSub(price, max_budget), max_budget), Q(1, 2))))
             ELSE _calculate_traditional_price_score(phone)

_calculate_price_value_score(phone, user_budget) ==
    IF phone.price <= 0 THEN Q(1, 2)
    ELSE IF user_budget.is_none THEN _calculate_traditional_price_score(phone)
    ELSE LET target_price == user_budget.target_price
             min_budget == user_budget.min_budget
             max_budget == user_budget.max_budget
             tolerance == user_budget.tolerance
             price == Int2Q(phone.price)
         IN  IF RLt(Zero, target_price)
             THEN LET price_diff == RAbs(RSub(price, target_price))
                      price_ratio == RDiv(price_diff, target_price)
                  IN  IF RLe(price_ratio, tolerance)
                      THEN IF tolerance[1] = 0 THEN ZeroDivisionError
                           ELSE RSub(OneQ, RMul(RDiv(price_ratio, tolerance), Q(3, 10)))
                      ELSE RMax(Zero, RSub(Q(7, 10),
                                           RMul(RSub(price_ratio, tolerance), Q(1, 2))))
             ELSE IF RLt(Zero, min_budget) /\ RLt(Zero, max_budget)
             THEN IF RLe(min_budget, price) /\ RLe(price, max_budget)
                  THEN LET budget_center == RDiv(RAdd(min_budget, max_budget), Int2Q(2))
                           price_diff == RAbs(RSub(price, budget_center))
                           budget_range == RSub(max_budget, min_budget)
                       IN  IF RLt(Zero, budget_range)
                           THEN Clamp01(RSub(OneQ, RDiv(price_diff,
                                                        RDiv(budget_range, Int2Q(2)))))
                           ELSE OneQ
                  ELSE IF RLt(price, min_budget)
                       THEN RMax(Zero, RSub(Q(1, 2),
                               RMul(RDiv(RSub(min_budget, price), min_budget), Q(3, 10))))
                       ELSE RMax(Zero, RSub(Q(1, 2),
                               RMul(RDiv(RSub(price, max_budget), max_budget), Q(1, 2))))
             ELSE _calculate_traditional_price_score(phone)

_calculate_heat_control_score(phone) ==
    LET cpu_score == _calculate_cpu_score(phone.cpu)
        by_cpu == IF RLt(Q(9, 10), cpu_score) THEN RSub(Q(7, 10), Q(1, 10))
                  ELSE IF RLt(cpu_score, Q(7, 10)) THEN RAdd(Q(7, 10), Q(1, 10))
                  ELSE Q(7, 10)
        base_score == IF NameContains(phone.name, "iPhone") THEN RAdd(by_cpu, Q(1, 10))
                      ELSE IF NameContains(phone.name, "Samsung") THEN RAdd(by_cpu, Q(5, 100))
                      ELSE by_cpu
    IN  Clamp01(base_score)

_calculate_network_stability_score(phone) ==
    IF NameContains(phone.name, "iPhone") THEN Q(9, 10)
    ELSE IF NameContains(phone.name, "Huawei") THEN Q(85, 100)
    ELSE IF NameContains(phone.name, "Samsung") THEN Q(8, 10)
    ELSE Q(8, 10)

_calculate_software_optimization_score(phone) ==
    IF NameContains(phone.name, "iPhone") THEN Q(95, 100)
    ELSE IF NameContains(phone.name, "Huawei") THEN Q(85, 100)
    ELSE IF NameContains(phone.name, "Samsung") THEN Q(8, 10)
    ELSE Q(8, 10)

_calculate_durability_score(phone) ==
    LET brand == IF NameContains(phone.name, "iPhone") THEN Q(9, 10)
                 ELSE IF NameContains(phone.name, "Samsung") THEN Q(85, 100)
                 ELSE IF NameContains(phone.name, "Huawei") THEN Q(8, 10)
                 ELSE Q(8, 10)
        base_score == IF phone.price > 6000 THEN RAdd(brand, Q(1, 10)) ELSE brand
    IN  Clamp01(base_score)

\* vectorize_phone: the vector, whose price_value is the marker
\* ZeroDivisionError when _calculate_price_value_score raises
vectorize_phone(phone, user_budget) ==
    LET cpu == _calculate_cpu_score(phone.cpu)
    IN  [cpu_performance |-> cpu,
         memory_capacity |-> _calculate_memory_score(phone.ram_gb),
         storage_speed |-> _calculate_storage_score(phone.storage_gb),
         gpu_performance |-> RMul(cpu, Q(9, 10)),
         camera_quality |-> _calculate_camera_score(phone.camera_mp),
         camera_features |-> _calculate_camera_features_score(phone),
         battery_capacity |-> _calculate_battery_score(phone.battery_mah),
         charging_speed |-> _calculate_charging_speed_score(phone),
         screen_quality |-> _calculate_screen_quality_score(phone),
         screen_size |-> _calculate_screen_size_score(phone.screen_size_inch),
         weight_portability |-> _calculate_weight_score(phone.weight_g),
         size_portability |-> _calculate_size_score(phone.screen_size_inch),
         build_quality |-> _calculate_build_quality_score(phone),
         design_appeal |-> _calculate_design_appeal_score(phone),
         price_value |-> _calculate_price_value_score(phone, user_budget),
         heat_control |-> _calculate_heat_control_score(phone),
         network_stability |-> _calculate_network_stability_score(phone),
         software_optimization |-> _calculate_software_optimization_score(phone),
         durability |-> _calculate_durability_score(phone)]

-----------------------------------------------------------------------------
(* Specification of the vectorizer: Init draws a phone and a budget        *)
(* descriptor, VectorizePhone applies vectorize_phone and either returns   *)
(* the vector or raises.  The descriptors are None, the no-budget default, *)
(* the ones the extractors build for ranges, fuzzy and single prices and   *)
(* the keyword rules, and range-shaped ones (no target price).             *)

MaxBudgetStep == 2      \* budgets are drawn at 3000, 3500, ... in this many steps

BudgetAmounts == {Int2Q(3000 + 500 * k) : k \in 0..MaxBudgetStep}

\* the descriptor both extractors build for the text range a-b
RangeBudget(a, b) ==
    Budget(RDiv(RAdd(a, b), Int2Q(2)), a, b,
           RMul(RDiv(RSub(b, a), RAdd(a, b)), Int2Q(2)), TRUE)

BudgetSet ==
    {NoBudgetGiven, Budget(Zero, Zero, Zero, Q(2, 10), FALSE),
     Budget(Int2Q(3000), Int2Q(2400), Int2Q(3600), Q(2, 10), TRUE),
     Budget(Int2Q(3000), Int2Q(2700), Int2Q(3300), Q(1, 10), TRUE),
     Budget(Int2Q(3000), Int2Q(1500), Int2Q(4500), Q(1, 2), TRUE),
     Budget(Int2Q(8000), Int2Q(6000), Int2Q(12000), Q(375, 1000), TRUE),
     Budget(Int2Q(2500), Int2Q(2000), Int2Q(3000), Q(2, 10), TRUE),
     RangeBudget(Zero, Int2Q(4000)), RangeBudget(Zero, Int2Q(6000)),
     RangeBudget(Int2Q(4000), Int2Q(2000)),
     RangeBudget(Int2Q(1200), Int2Q(2800))}
    \cup {RangeBudget(a, b) : a \in BudgetAmounts, b \in BudgetAmounts}
    \cup {Budget(Zero, a, b, Q(2, 10), TRUE) : a \in BudgetAmounts, b \in BudgetAmounts}

InitVectorize ==
    /\ pc = "init"
    /\ _phone_vectors_cache = EmptyCache
    /\ NoText
    /\ phones = <<>>
    /\ requirements = <<>>
    /\ arg_phone \in PhoneSet
    /\ arg_budget \in BudgetSet
    /\ arg_demand = NoVector
    /\ arg_vector = NoVector
    /\ filtered_phones = NoResult
    /\ prev_filtered = NoResult
    /\ score = Zero
    /\ ret_vector = NoVector

VectorizePhone ==
    /\ pc = "init"
    /\ LET v == vectorize_phone(arg_phone, arg_budget)
       IN  IF IsRaised(v["price_value"])
           THEN pc' = "raised" /\ ret_vector' = NoVector
           ELSE pc' = "vectorized" /\ ret_vector' = v
    /\ UNCHANGED _phone_vectors_cache
    /\ UNCHANGED <<phones, requirements, arg_phone, arg_budget, arg_demand,
                   arg_vector, filtered_phones, prev_filtered, score>>
    /\ UNCHANGED textVars

NextVectorize == VectorizePhone

SpecVectorize == InitVectorize /\ [][NextVectorize]_vars

\* C4: every one of the 19 components of the vector returned by
\* vectorize_phone lies in [0,1], whatever the phone and the budget descriptor
\* (absent, has_budget false, target-price shaped or range shaped).
C4_PerformanceInUnit ==
    pc = "vectorized" =>
        /\ DOMAIN ret_vector = Dims
        /\ Cardinality(Dims) = 19
        /\ \A x \in Dims : InUnit(ret_vector[x])

\* a phone priced above a range-shaped budget, whose price_value is floored
C4_Witness ==
    /\ pc = "vectorized"
    /\ ~arg_budget.is_none
    /\ arg_budget.target_price = Zero
    /\ RLt(Zero, arg_budget.max_budget)
    /\ RLt(RMul(arg_budget.max_budget, Int2Q(2)), Int2Q(arg_phone.price))
    /\ ret_vector["price_value"] = Zero

-----------------------------------------------------------------------------
(* The request text.                                                       *)
(*                                                                         *)
(* A text is a sequence of tokens.  A token stands for one literal piece   *)
(* of the request and is named in ASCII:                                   *)
(*                                                                         *)
(*   "0" "8" "128" "256" "3000" "4000" "5000"   the decimal numerals       *)
(*   "-"        -  (or ~)             "G"        G                         *)
(*   "mAh"      mAh                   "CPU"      CPU                       *)
(*   "cunchu"   存储                  "kongjian" 空间                      *)
(*   "neicun"   内存                  "dianchi"  电池                      *)
(*   "yuan"     元                    "kuai4"    块                        *)
(*   "zuoyou"   左右                  "shangxia" 上下                      *)
(*   "dayue"    大约                  "dagai"    大概                      *)
(*   "yusuan"   预算                  "jiage"    价格                      *)
(*   "zhishao"  至少                  "buchaoguo" 不超过                   *)
(*   "paizhao"  拍照                  "youxi"    游戏                      *)
(*   "pianyi"   便宜                  "gaoduan"  高端                      *)
(*   "qingbo"   轻薄                  "de_shouji" 的手机                   *)
(*   "nihao"    你好                  ","        ，                        *)
(*   "duo"      多                                                         *)
(*                                                                         *)
(* The other names that occur in the pattern and keyword tables below are  *)
(* the same kind of transliteration of the words of the source tables.     *)
(* No two numerals are adjacent in a text, so a run of digits is always a  *)
(* whole numeral token and \d+ captures a whole token.                     *)

Digits == {"0", "8", "128", "256", "3000", "4000", "5000"}

\* int(match.group(k)): the value of a numeral
int(token) ==
    CASE token = "0" -> 0
      [] token = "8" -> 8
      [] token = "128" -> 128
      [] token = "256" -> 256
      [] token = "3000" -> 3000
      [] token = "4000" -> 4000
      [] token = "5000" -> 5000

\* float(match.group(k))
float(token) == Int2Q(int(token))

\* int(x) of a non-negative float x: truncation
Trunc(x) == x[1] \div x[2]

\* user_input.lower()
lower(text) ==
    [i \in DOMAIN text |->
        CASE text[i] = "G" -> "g"
          [] text[i] = "mAh" -> "mah"
          [] text[i] = "CPU" -> "cpu"
          [] OTHER -> text[i]]

\* the words of the keyword tables that occur inside one token: the token's
\* own text and, for 轻薄, also 轻
Substrings(token) == IF token = "qingbo" THEN {"qingbo", "qing"} ELSE {token}

\* keyword in text
In(keyword, text) == \E i \in DOMAIN text : keyword \in Substrings(text[i])

\* any(keyword in text for keyword in keywords)
any(keywords, text) == \E k \in DOMAIN keywords : In(keywords[k], text)

Min(S) == CHOOSE x \in S : \A y \in S : x <= y

(* Regular expressions.  A pattern is a sequence whose elements are NUM    *)
(* for the group (\d+), GAP for the lazy .*? and otherwise the token that  *)
(* the literal part stands for ([Gg][Bb]? is "G", [-~] is "-", \s* is      *)
(* nothing).  re.search returns the leftmost match, and a lazy gap takes   *)
(* the shortest stretch that lets the rest of the pattern match.           *)
NUM == "(\\d+)"
GAP == ".*?"
\* the negative lookahead (?!.*?左右|.*?上下)
NOT_FUZZY_AHEAD == "(?!...)"

NoMatch == [matched |-> FALSE, group |-> <<>>]

RECURSIVE MatchFrom(_, _, _, _)
MatchFrom(pattern, k, text, i) ==
    IF k > Len(pattern) THEN [matched |-> TRUE, group |-> <<>>]
    ELSE IF pattern[k] = GAP
    THEN LET ends == {j \in i..(Len(text) + 1) :
                          MatchFrom(pattern, k + 1, text, j).matched}
         IN  IF ends = {} THEN NoMatch
             ELSE MatchFrom(pattern, k + 1, text, Min(ends))
    ELSE IF pattern[k] = NOT_FUZZY_AHEAD
    THEN IF \E j \in i..Len(text) : text[j] \in {"zuoyou", "shangxia"}
         THEN NoMatch
         ELSE MatchFrom(pattern, k + 1, text, i)
    ELSE IF i > Len(text) THEN NoMatch
    ELSE IF pattern[k] = NUM
    THEN IF text[i] \in Digits
         THEN LET rest == MatchFrom(pattern, k + 1, text, i + 1)
              IN  IF rest.matched
                  THEN [matched |-> TRUE, group |-> <<text[i]>> \o rest.group]
                  ELSE NoMatch
         ELSE NoMatch
    ELSE IF text[i] = pattern[k]
    THEN MatchFrom(pattern, k + 1, text, i + 1)
    ELSE NoMatch

re_search(pattern, text) ==
    LET starts == {i \in 1..Len(text) : MatchFrom(pattern, 1, text, i).matched}
    IN  IF starts = {} THEN NoMatch
        ELSE MatchFrom(pattern, 1, text, Min(starts))

-----------------------------------------------------------------------------
(* EnhancedDemandParser.                                                   *)

number_patterns == <<
    [patterns |-> << <<NUM, "G", "cunchu">>, <<NUM, "G", "kongjian">>,
                     <<NUM, "G", "rongliang">>, <<"cunchu", NUM, "G">>,
                     <<NUM, "G", "de_shouji">>,
                     <<NUM, "G", "cunchu", "kongjian">> >>,
     dimension |-> "storage_speed", unit |-> "GB", tolerance |-> Zero],
    [patterns |-> << <<NUM, "G", "neicun">>, <<NUM, "G", "RAM">>,
                     <<NUM, "G", "yunxing", "neicun">>, <<"neicun", NUM, "G">>,
                     <<NUM, "G", "neicun", "de_shouji">> >>,
     dimension |-> "memory_capacity", unit |-> "GB", tolerance |-> Zero],
    [patterns |-> << <<NUM, "cun", "pingmu">>, <<NUM, "yingcun", "pingmu">>,
                     <<"pingmu", NUM, "cun">>, <<NUM, "cun", "de_shouji">>,
                     <<NUM, "yingcun", "de_shouji">> >>,
     dimension |-> "screen_size", unit |-> "inch", tolerance |-> Q(1, 10)],
    [patterns |-> << <<NUM, "mAh", "dianchi">>, <<NUM, "haoan", "dianchi">>,
                     <<"dianchi", NUM, "mAh">>, <<NUM, "mAh", "de_shouji">>,
                     <<NUM, "haoan", "de_shouji">> >>,
     dimension |-> "battery_capacity", unit |-> "mAh", tolerance |-> Q(5, 100)],
    [patterns |-> << <<NUM, "MP", "shexiangtou">>, <<NUM, "MP", "xiangji">>,
                     <<NUM, "baiwanxiangsu">>, <<"shexiangtou", NUM, "MP">>,
                     <<NUM, "MP", "de_shouji">>, <<NUM, "MP", "paizhao">> >>,
     dimension |-> "camera_quality", unit |-> "MP", tolerance |-> Q(1, 10)],
    [patterns |-> << <<NUM, "yuan", "zuoyou">>, <<"dayue", NUM, "yuan">>,
                     <<NUM, "yuan", "shangxia">>, <<"jiage", NUM, "yuan">>,
                     <<NUM, "yuan", "de_shouji">>, <<NUM, "kuai4", "zuoyou">>,
                     <<"dayue", NUM, "kuai4">> >>,
     dimension |-> "price_value", unit |-> "yuan", tolerance |-> Q(2, 10)] >>

range_patterns == <<
    [patterns |-> << <<NUM, "-", NUM, "yuan">>, <<NUM, "-", NUM, "kuai4">>,
                     <<"yusuan", NUM, "-", NUM>>, <<NUM, "-", NUM, "yusuan">> >>,
     dimension |-> "price_value", unit |-> "yuan"],
    [patterns |-> << <<NUM, "-", NUM, "G", "cunchu">>,
                     <<"cunchu", NUM, "-", NUM, "G">> >>,
     dimension |-> "storage_speed", unit |-> "GB"] >>

comparison_patterns == <<
    [requirement_type |-> "minimum",
     keywords |-> <<"zhishao", "zuishao", "zuidi", "buxiaoyu", "dayudengyu",
                    ">=", "ge_sign">>,
     tolerance |-> Q(1, 10)],
    [requirement_type |-> "maximum",
     keywords |-> <<"zuiduo", "zuigao", "buchaoguo", "budayu", "xiaoyudengyu",
                    "<=", "le_sign">>,
     tolerance |-> Q(1, 10)] >>

\* NumberLoop stopping at the first pattern that matches, as the range
\* step does, and taking the default tolerance of the comparison step
RECURSIVE NumberLoop_first_pattern(_, _, _)
NumberLoop_first_pattern(config, k, text) ==
    IF k > Len(config.patterns) THEN <<>>
    ELSE LET match == re_search(config.patterns[k], text)
         IN  IF match.matched
             THEN <<SpecificRequirement(config.dimension,
                                        float(match.group[1]), config.unit,
                                        Q(1, 10), "exact")>>
             ELSE NumberLoop_first_pattern(config, k + 1, text)

\* step 1 of _extract_specific_requirements, for one category: every
\* pattern of the category contributes its first match
RECURSIVE NumberLoop(_, _, _)
NumberLoop(config, k, text) ==
    IF k > Len(config.patterns) THEN <<>>
    ELSE LET match == re_search(config.patterns[k], text)
         IN  (IF match.matched
              THEN <<SpecificRequirement(config.dimension,
                                         float(match.group[1]), config.unit,
                                         config.tolerance, "exact")>>
              ELSE <<>>)
             \o NumberLoop(config, k + 1, text)

RECURSIVE ExactRequirements(_, _)
ExactRequirements(c, text) ==
    IF c > Len(number_patterns) THEN <<>>
    ELSE NumberLoop(number_patterns[c], 1, text) \o ExactRequirements(c + 1, text)

\* step 2, for one category: the first pattern that matches gives one range
\* requirement; (max_val - min_val) / avg_val raises when avg_val = 0, so
\* the tolerance is then the ZeroDivisionError marker
RECURSIVE RangeLoop(_, _, _)
RangeLoop(config, k, text) ==
    IF k > Len(config.patterns) THEN <<>>
    ELSE LET match == re_search(config.patterns[k], text)
         IN  IF match.matched
             THEN LET min_val == float(match.group[1])
                      max_val == float(match.group[2])
                      avg_val == RDiv(RAdd(min_val, max_val), Int2Q(2))
                      tolerance == RDiv(RSub(max_val, min_val), avg_val)
                  IN  <<SpecificRequirement(config.dimension, avg_val,
                                            config.unit, tolerance, "range")>>
             ELSE RangeLoop(config, k + 1, text)

RECURSIVE RangeRequirements(_, _)
RangeRequirements(c, text) ==
    IF c > Len(range_patterns) THEN <<>>
    ELSE RangeLoop(range_patterns[c], 1, text) \o RangeRequirements(c + 1, text)

\* step 3, for one comparison type: the first keyword of the list that is in
\* the text and is followed by a number gives one price_value requirement
RECURSIVE ComparisonLoop(_, _, _)
ComparisonLoop(config, k, text) ==
    IF k > Len(config.keywords) THEN <<>>
    ELSE LET keyword == config.keywords[k]
             number_match == re_search(<<keyword, GAP, NUM>>, text)
         IN  IF In(keyword, text) /\ number_match.matched
             THEN <<SpecificRequirement("price_value",
                                        float(number_match.group[1]), "yuan",
                                        config.tolerance,
                                        config.requirement_type)>>
             ELSE ComparisonLoop(config, k + 1, text)

\* A requirement whose tolerance is the ZeroDivisionError marker stands for
\* the exception leaving the function.
_extract_specific_requirements(text) ==
    ExactRequirements(1, text)
        \o RangeRequirements(1, text)
        \o ComparisonLoop(comparison_patterns[1], 1, text)
        \o ComparisonLoop(comparison_patterns[2], 1, text)

budget_range_patterns == <<
    <<NUM, "-", NUM, GAP, "yuan">>, <<NUM, "-", NUM, GAP, "kuai4">>,
    <<"yusuan", GAP, NUM, "-", NUM>>, <<NUM, "-", NUM, GAP, "yusuan">> >>

fuzzy_patterns == <<
    <<"dayue", GAP, NUM, GAP, "yuan">>, <<NUM, GAP, "zuoyou", GAP, "yuan">>,
    <<NUM, GAP, "yuan", GAP, "zuoyou">>, <<"dagai", GAP, NUM, GAP, "yuan">>,
    <<NUM, GAP, "shangxia", GAP, "yuan">> >>

\* the first pattern of the list that matches the text, as <<match>>, or <<>>
RECURSIVE FirstMatch(_, _, _)
FirstMatch(patterns, k, text) ==
    IF k > Len(patterns) THEN <<>>
    ELSE LET match == re_search(patterns[k], text)
         IN  IF match.matched THEN <<match>>
             ELSE FirstMatch(patterns, k + 1, text)

\* the update of budget_info on a range match; the tolerance is the
\* ZeroDivisionError marker when min_val + max_val = 0
\* mutant: the descriptor of a text range built without a target price
RangeMatchBudget_without_target(match) ==
    LET min_val == Int2Q(int(match.group[1]))
        max_val == Int2Q(int(match.group[2]))
    IN  Budget(Zero, min_val, max_val,
               LET ratio == RDiv(RSub(max_val, min_val), RAdd(min_val, max_val))
               IN  IF IsRaised(ratio) THEN ratio ELSE RMul(ratio, Int2Q(2)),
               TRUE)

RangeMatchBudget(match) ==
    LET min_val == Int2Q(int(match.group[1]))
        max_val == Int2Q(int(match.group[2]))
    IN  Budget(RDiv(RAdd(min_val, max_val), Int2Q(2)), min_val, max_val,
               LET ratio == RDiv(RSub(max_val, min_val), RAdd(min_val, max_val))
               IN  IF IsRaised(ratio) THEN ratio ELSE RMul(ratio, Int2Q(2)),
               TRUE)

\* the update of budget_info for a target price and its tolerance
TargetBudget(target_price, tolerance) ==
    Budget(Int2Q(target_price),
           Int2Q(Trunc(RMul(Int2Q(target_price), RSub(OneQ, tolerance)))),
           Int2Q(Trunc(RMul(Int2Q(target_price), RAdd(OneQ, tolerance)))),
           tolerance, TRUE)

DefaultBudget == Budget(Zero, Zero, Zero, Q(2, 10), FALSE)

_extract_budget_info(text) ==
    LET range == FirstMatch(budget_range_patterns, 1, text)
        fuzzy == FirstMatch(fuzzy_patterns, 1, text)
    IN  IF range # <<>> THEN RangeMatchBudget(range[1])
        ELSE IF fuzzy # <<>>
        THEN LET target_price == int(fuzzy[1].group[1])
             IN  TargetBudget(target_price,
                              IF target_price < 5000 THEN Q(2, 10)
                              ELSE Q(25, 100))
        ELSE DefaultBudget

\* dimensions of the requirements, in list order
ReqDimensions(reqs) == [i \in DOMAIN reqs |-> reqs[i].dimension]

InSeq(x, seq) == \E i \in DOMAIN seq : seq[i] = x

performance_words == <<"xingneng", "chuliqi", "CPU", "youxi", "liuchang">>
camera_words == <<"paizhao", "sheying", "xiangji", "zhaopian">>
battery_words == <<"xuhang", "dianchi", "chijiu", "chongdian">>
portable_words == <<"qingbo", "bianxie", "zhongliang", "xiedai">>

\* _generate_vector_weights with step 2 assigning 0.7 instead of taking the max
_generate_vector_weights_budget_assigns(text, specific_requirements, budget_info) ==
    LET input_lower == lower(text)
        \* 1. 0.8 for every dimension that has a requirement
        w1 == [x \in Dims |->
                  IF InSeq(x, ReqDimensions(specific_requirements))
                  THEN Q(8, 10) ELSE Zero]
        \* 2. the budget sets price_value to 0.7
        w2 == IF budget_info.has_budget
              THEN [w1 EXCEPT !["price_value"] = Q(7, 10)]
              ELSE w1
        \* 3. keyword groups
        w3 == IF any(performance_words, input_lower)
              THEN [w2 EXCEPT !["cpu_performance"] = RMax(@, Q(6, 10)),
                              !["gpu_performance"] = RMax(@, Q(5, 10))]
              ELSE w2
        w4 == IF any(camera_words, input_lower)
              THEN [w3 EXCEPT !["camera_quality"] = RMax(@, Q(7, 10)),
                              !["camera_features"] = RMax(@, Q(6, 10))]
              ELSE w3
        w5 == IF any(battery_words, input_lower)
              THEN [w4 EXCEPT !["battery_capacity"] = RMax(@, Q(7, 10)),
                              !["charging_speed"] = RMax(@, Q(5, 10))]
              ELSE w4
    IN  IF any(portable_words, input_lower)
        THEN [w5 EXCEPT !["weight_portability"] = RMax(@, Q(7, 10)),
                        !["size_portability"] = RMax(@, Q(6, 10))]
        ELSE w5

_generate_vector_weights(text, specific_requirements, budget_info) ==
    LET input_lower == lower(text)
        \* 1. 0.8 for every dimension that has a requirement
        w1 == [x \in Dims |->
                  IF InSeq(x, ReqDimensions(specific_requirements))
                  THEN Q(8, 10) ELSE Zero]
        \* 2. the budget raises price_value to at least 0.7
        w2 == IF budget_info.has_budget
              THEN [w1 EXCEPT !["price_value"] = RMax(@, Q(7, 10))]
              ELSE w1
        \* 3. keyword groups
        w3 == IF any(performance_words, input_lower)
              THEN [w2 EXCEPT !["cpu_performance"] = RMax(@, Q(6, 10)),
                              !["gpu_performance"] = RMax(@, Q(5, 10))]
              ELSE w2
        w4 == IF any(camera_words, input_lower)
              THEN [w3 EXCEPT !["camera_quality"] = RMax(@, Q(7, 10)),
                              !["camera_features"] = RMax(@, Q(6, 10))]
              ELSE w3
        w5 == IF any(battery_words, input_lower)
              THEN [w4 EXCEPT !["battery_capacity"] = RMax(@, Q(7, 10)),
                              !["charging_speed"] = RMax(@, Q(5, 10))]
              ELSE w4
    IN  IF any(portable_words, input_lower)
        THEN [w5 EXCEPT !["weight_portability"] = RMax(@, Q(7, 10)),
                        !["size_portability"] = RMax(@, Q(6, 10))]
        ELSE w5

\* seq without the elements that occurred earlier in it
RECURSIVE Distinct(_)
Distinct(seq) ==
    IF seq = <<>> THEN <<>>
    ELSE LET front == Distinct(SubSeq(seq, 1, Len(seq) - 1))
             last == seq[Len(seq)]
         IN  IF InSeq(last, front) THEN front ELSE Append(front, last)

default_focus_dimensions ==
    <<"cpu_performance", "camera_quality", "battery_capacity", "price_value">>

\* the dimensions of DimSeq whose weight exceeds the threshold, in order
HeavyDimensions(weights, threshold) ==
    SelectSeq(DimSeq, LAMBDA x : RLt(threshold, weights[x]))

\* _determine_focus_dimensions without its step 3, the default dimensions
_determine_focus_dimensions_no_default(vector_weights, specific_requirements) ==
    Distinct(ReqDimensions(specific_requirements)
                 \o HeavyDimensions(vector_weights, Q(3, 10)))

_determine_focus_dimensions(vector_weights, specific_requirements) ==
    LET focus_dimensions ==
            Distinct(ReqDimensions(specific_requirements)
                         \o HeavyDimensions(vector_weights, Q(3, 10)))
    IN  IF focus_dimensions = <<>> THEN default_focus_dimensions
        ELSE focus_dimensions

\* the dimension_names table of _generate_demand_summary
summary_dimension_names ==
    [cpu_performance |-> "xingneng", camera_quality |-> "paizhao",
     battery_capacity |-> "xuhang", weight_portability |-> "bianxie",
     price_value |-> "xingjiabi", screen_quality |-> "pingmu",
     build_quality |-> "zuogong", design_appeal |-> "waiguan",
     gpu_performance |-> "youxi", memory_capacity |-> "neicun",
     storage_speed |-> "cunchu", camera_features |-> "paizhaogongneng",
     charging_speed |-> "chongdian", screen_size |-> "pingmuchicun",
     size_portability |-> "chicunbianxie", heat_control |-> "sanre",
     network_stability |-> "wangluo", software_optimization |-> "xitong",
     durability |-> "naiyongxing"]

\* _generate_demand_summary: the list of summaries that the code joins with
\* a comma, one <<prefix, value, unit, suffix>> per requirement and then the
\* names of the focus dimensions that no requirement names; the text
\* 通用需求 stands for the empty list
_generate_demand_summary(specific_requirements, focus_dimensions) ==
    LET summaries ==
            [i \in DOMAIN specific_requirements |->
                LET req == specific_requirements[i]
                IN  CASE req.requirement_type = "exact" -> <<"", req.value, req.unit, "">>
                      [] req.requirement_type = "range" ->
                             <<"", req.value, req.unit, "zuoyou">>
                      [] req.requirement_type = "minimum" ->
                             <<"zhishao", req.value, req.unit, "">>
                      [] req.requirement_type = "maximum" ->
                             <<"zuiduo", req.value, req.unit, "">>]
        named == {specific_requirements[i].dimension : i \in DOMAIN specific_requirements}
        focus_names ==
            [i \in DOMAIN SelectSeq(focus_dimensions, LAMBDA dim : dim \notin named) |->
                summary_dimension_names[
                    SelectSeq(focus_dimensions, LAMBDA dim : dim \notin named)[i]]]
        all == IF focus_names = <<>> THEN summaries
               ELSE Append(summaries, <<"zhongdianguanzhu", focus_names>>)
    IN  IF all = <<>> THEN <<"tongyongxuqiu">> ELSE all

\* the outcome of parse_demand when an exception leaves it
ParseRaised ==
    [raised |-> TRUE, vector_weights |-> NoVector,
     specific_requirements |-> <<>>, budget_info |-> DefaultBudget,
     focus_dimensions |-> <<>>, demand_summary |-> <<>>]

\* mutant: a parser that keeps the requirement list of its preceding call
parse_demand_keeping_requirements(text) ==
    LET specific_requirements ==
            (IF pc = "init" THEN <<>> ELSE analysis.specific_requirements)
                \o _extract_specific_requirements(text)
        budget_info == _extract_budget_info(text)
        vector_weights == _generate_vector_weights(text, specific_requirements,
                                                   budget_info)
    IN  IF \E i \in DOMAIN specific_requirements :
               IsRaised(specific_requirements[i].tolerance)
        THEN ParseRaised
        ELSE IF IsRaised(budget_info.tolerance) THEN ParseRaised
        ELSE [raised |-> FALSE,
              vector_weights |-> vector_weights,
              specific_requirements |-> specific_requirements,
              budget_info |-> budget_info,
              focus_dimensions |->
                  _determine_focus_dimensions(vector_weights,
                                              specific_requirements),
              demand_summary |->
                  _generate_demand_summary(
                      specific_requirements,
                      _determine_focus_dimensions(vector_weights,
                                                  specific_requirements))]

parse_demand(text) ==
    LET specific_requirements == _extract_specific_requirements(text)
        budget_info == _extract_budget_info(text)
        vector_weights == _generate_vector_weights(text, specific_requirements,
                                                   budget_info)
    IN  IF \E i \in DOMAIN specific_requirements :
               IsRaised(specific_requirements[i].tolerance)
        THEN ParseRaised
        ELSE IF IsRaised(budget_info.tolerance) THEN ParseRaised
        ELSE [raised |-> FALSE,
              vector_weights |-> vector_weights,
              specific_requirements |-> specific_requirements,
              budget_info |-> budget_info,
              focus_dimensions |->
                  _determine_focus_dimensions(vector_weights,
                                              specific_requirements),
              demand_summary |->
                  _generate_demand_summary(
                      specific_requirements,
                      _determine_focus_dimensions(vector_weights,
                                                  specific_requirements))]

validate_requirements(reqs) ==
    \A i \in DOMAIN reqs :
        /\ ~RLe(reqs[i].value, Zero)
        /\ ~(RLt(reqs[i].tolerance, Zero) \/ RLt(OneQ, reqs[i].tolerance))

-----------------------------------------------------------------------------
(* DemandVectorizationEngine.                                              *)

keyword_mapping ==
    [x \in Dims |->
        CASE x = "cpu_performance" ->
               [keywords |-> <<"xingneng", "chuliqi", "CPU", "youxi",
                               "liuchang", "kuai", "sudu", "yunxing">>,
                weight_increment |-> Q(3, 10)]
          [] x = "memory_capacity" ->
               [keywords |-> <<"neicun", "RAM", "yunxingneicun", "cunchu",
                               "kongjian">>,
                weight_increment |-> Q(25, 100)]
          [] x = "storage_speed" ->
               [keywords |-> <<"cunchu", "kongjian", "rongliang", "sudu",
                               "kuai">>,
                weight_increment |-> Q(25, 100)]
          [] x = "gpu_performance" ->
               [keywords |-> <<"youxi", "xianka", "GPU", "tuxing", "huazhi">>,
                weight_increment |-> Q(3, 10)]
          [] x = "camera_quality" ->
               [keywords |-> <<"paizhao", "sheying", "xiangji", "xiangsu",
                               "qingxi", "huazhi", "zhaopian">>,
                weight_increment |-> Q(35, 100)]
          [] x = "camera_features" ->
               [keywords |-> <<"paizhao", "sheying", "xiangji", "gongneng",
                               "yejing", "renxiang", "guangjiao">>,
                weight_increment |-> Q(3, 10)]
          [] x = "battery_capacity" ->
               [keywords |-> <<"xuhang", "dianchi", "chijiu", "chongdian",
                               "dianliang", "daiji">>,
                weight_increment |-> Q(35, 100)]
          [] x = "charging_speed" ->
               [keywords |-> <<"chongdian", "kuaichong", "chongdiansudu",
                               "chongdianqi", "wuxianchongdian">>,
                weight_increment |-> Q(3, 10)]
          [] x = "screen_quality" ->
               [keywords |-> <<"pingmu", "xianshi", "secai", "fenbianlv",
                               "huazhi", "qingxi">>,
                weight_increment |-> Q(3, 10)]
          [] x = "screen_size" ->
               [keywords |-> <<"pingmu", "chicun", "daxiao", "xianshi">>,
                weight_increment |-> Q(25, 100)]
          [] x = "weight_portability" ->
               [keywords |-> <<"qingbo", "bianxie", "zhongliang", "xiedai",
                               "qing", "zhong">>,
                weight_increment |-> Q(35, 100)]
          [] x = "size_portability" ->
               [keywords |-> <<"qingbo", "bianxie", "chicun", "daxiao",
                               "xiedai">>,
                weight_increment |-> Q(3, 10)]
          [] x = "build_quality" ->
               [keywords |-> <<"zuogong", "zhiliang", "naiyong", "jiangu",
                               "caizhi", "shougan">>,
                weight_increment |-> Q(3, 10)]
          [] x = "design_appeal" ->
               [keywords |-> <<"waiguan", "sheji", "yanzhi", "haokan",
                               "piaoliang", "shishang">>,
                weight_increment |-> Q(3, 10)]
          [] x = "price_value" ->
               [keywords |-> <<"xingjiabi", "pianyi", "shihui", "yusuan",
                               "jiage", "gui", "pianyi">>,
                weight_increment |-> Q(4, 10)]
          [] x = "heat_control" ->
               [keywords |-> <<"sanre", "fare", "wendu", "lengque">>,
                weight_increment |-> Q(25, 100)]
          [] x = "network_stability" ->
               [keywords |-> <<"wangluo", "xinhao", "wending", "lianjie",
                               "5G", "4G">>,
                weight_increment |-> Q(25, 100)]
          [] x = "software_optimization" ->
               [keywords |-> <<"xitong", "ruanjian", "youhua", "liuchang",
                               "kadun", "tiyan">>,
                weight_increment |-> Q(3, 10)]
          [] x = "durability" ->
               [keywords |-> <<"naiyong", "zhiliang", "jiangu", "shouming",
                               "changqi">>,
                weight_increment |-> Q(25, 100)]]

\* a function of the given dimensions, Zero elsewhere
Weights(pairs) ==
    [x \in Dims |->
        IF \E i \in DOMAIN pairs : pairs[i][1] = x
        THEN (CHOOSE p \in {pairs[i] : i \in DOMAIN pairs} : p[1] = x)[2]
        ELSE Zero]

special_patterns == <<
    [keywords |-> <<"youxi", "dianjing", "wangzhe", "chiji", "shouyou">>,
     dimensions |-> Weights(<< <<"cpu_performance", Q(8, 10)>>,
                               <<"gpu_performance", Q(8, 10)>>,
                               <<"memory_capacity", Q(6, 10)>>,
                               <<"heat_control", Q(7, 10)>>,
                               <<"battery_capacity", Q(6, 10)>> >>)],
    [keywords |-> <<"paizhao", "sheying", "xiangji", "zhaopian", "sheying">>,
     dimensions |-> Weights(<< <<"camera_quality", Q(9, 10)>>,
                               <<"camera_features", Q(9, 10)>>,
                               <<"screen_quality", Q(7, 10)>>,
                               <<"storage_speed", Q(6, 10)>> >>)],
    [keywords |-> <<"shangwu", "bangong", "gongzuo", "huiyi", "youjian">>,
     dimensions |-> Weights(<< <<"battery_capacity", Q(8, 10)>>,
                               <<"network_stability", Q(8, 10)>>,
                               <<"software_optimization", Q(7, 10)>>,
                               <<"durability", Q(7, 10)>> >>)],
    [keywords |-> <<"qingbo", "bianxie", "xiedai", "qingbian", "xiaoqiao">>,
     dimensions |-> Weights(<< <<"weight_portability", Q(9, 10)>>,
                               <<"size_portability", Q(9, 10)>>,
                               <<"battery_capacity", Q(6, 10)>> >>)],
    [keywords |-> <<"pianyi", "shihui", "xingjiabi", "yusuan", "jingji">>,
     dimensions |-> Weights(<< <<"price_value", Q(9, 10)>>,
                               <<"battery_capacity", Q(6, 10)>>,
                               <<"durability", Q(6, 10)>> >>)] >>

\* weight += weight_increment for every keyword of the list that is in the
\* text
RECURSIVE KeywordWeight(_, _, _)
KeywordWeight(config, k, input_lower) ==
    IF k > Len(config.keywords) THEN Zero
    ELSE RAdd(IF In(config.keywords[k], input_lower)
              THEN config.weight_increment ELSE Zero,
              KeywordWeight(config, k + 1, input_lower))

_apply_keyword_matching_uncapped(input_lower) ==
    [x \in Dims |-> KeywordWeight(keyword_mapping[x], 1, input_lower)]

_apply_keyword_matching(input_lower) ==
    [x \in Dims |->
        RMin(KeywordWeight(keyword_mapping[x], 1, input_lower), OneQ)]

RECURSIVE SpecialLoop(_, _, _)
SpecialLoop(vector, k, input_lower) ==
    IF k > Len(special_patterns) THEN vector
    ELSE SpecialLoop(
             IF any(special_patterns[k].keywords, input_lower)
             THEN [x \in Dims |->
                      IF RLt(Zero, special_patterns[k].dimensions[x])
                      THEN RMax(vector[x], special_patterns[k].dimensions[x])
                      ELSE vector[x]]
             ELSE vector,
             k + 1, input_lower)

_apply_special_patterns(vector, input_lower) ==
    SpecialLoop(vector, 1, input_lower)

budget_patterns == <<
    <<"yusuan", GAP, NUM, "-", NUM>>, <<NUM, "-", NUM, GAP, "yusuan">>,
    <<NUM, "-", NUM, GAP, "yuan">>, <<NUM, "-", NUM, GAP, "kuai4">> >>

price_keywords == <<"pianyi", "shihui", "xingjiabi", "jingji", "gui", "pianyi">>

_analyze_budget(text) ==
    LET match == FirstMatch(budget_patterns, 1, text)
    IN  IF match # <<>>
        THEN LET min_budget == int(match[1].group[1])
                 max_budget == int(match[1].group[2])
                 avg_budget == Q(min_budget + max_budget, 2)
             IN  IF RLt(avg_budget, Int2Q(2000)) THEN Q(9, 10)
                 ELSE IF RLt(avg_budget, Int2Q(4000)) THEN Q(7, 10)
                 ELSE IF RLt(avg_budget, Int2Q(6000)) THEN Q(5, 10)
                 ELSE IF RLt(avg_budget, Int2Q(8000)) THEN Q(3, 10)
                 ELSE Q(2, 10)
        ELSE IF any(price_keywords, text) THEN Q(6, 10)
        ELSE Q(5, 10)

single_patterns == <<
    <<NUM, GAP, "yuan", NOT_FUZZY_AHEAD>>, <<"jiage", GAP, NUM>>,
    <<NUM, GAP, "jiage">> >>

economy_keywords == <<"pianyi", "shihui", "xingjiabi", "jingji">>
flagship_keywords == <<"gaoduan", "qijian", "dingji">>

extract_budget_info(text) ==
    LET range == FirstMatch(budget_range_patterns, 1, text)
        fuzzy == FirstMatch(fuzzy_patterns, 1, text)
        single == FirstMatch(single_patterns, 1, text)
    IN  IF range # <<>> THEN RangeMatchBudget(range[1])
        ELSE IF fuzzy # <<>>
        THEN LET target_price == int(fuzzy[1].group[1])
             IN  TargetBudget(target_price,
                              IF target_price < 2000 THEN Q(15, 100)
                              ELSE IF target_price < 5000 THEN Q(2, 10)
                              ELSE Q(25, 100))
        ELSE IF single # <<>>
        THEN TargetBudget(int(single[1].group[1]), Q(1, 10))
        ELSE IF any(economy_keywords, text)
        THEN Budget(Int2Q(3000), Int2Q(1500), Int2Q(4500), Q(5, 10), TRUE)
        ELSE IF any(flagship_keywords, text)
        THEN Budget(Int2Q(8000), Int2Q(6000), Int2Q(12000), Q(375, 1000), TRUE)
        ELSE DefaultBudget

\* the outcome of vectorize_demand when an exception leaves it
DemandRaised ==
    [raised |-> TRUE, vector |-> NoVector, focus_dimensions |-> <<>>,
     budget_info |-> DefaultBudget]

vectorize_demand(text) ==
    LET input_lower == lower(text)
        matched == _apply_keyword_matching(input_lower)
        special == _apply_special_patterns(matched, input_lower)
        budget_info == extract_budget_info(text)
        budget_weight == _analyze_budget(text)
        vector == [special EXCEPT !["price_value"] = RMax(@, budget_weight)]
        focus_dimensions == HeavyDimensions(vector, Q(1, 10))
    IN  IF IsRaised(budget_info.tolerance) THEN DemandRaised
        ELSE [raised |-> FALSE, vector |-> vector,
              focus_dimensions |->
                  IF focus_dimensions = <<>> THEN default_focus_dimensions
                  ELSE focus_dimensions,
              budget_info |-> budget_info]

validate_demand(demand) ==
    IF demand.focus_dimensions = <<>> THEN FALSE
    ELSE \A x \in Dims : RLe(Zero, demand.vector[x]) /\ RLe(demand.vector[x], OneQ)

-----------------------------------------------------------------------------
(* Parsing a request: the text is drawn from the phrases below, joined by  *)
(* commas; ParseDemand applies EnhancedDemandParser.parse_demand,          *)
(* VectorizeDemand applies DemandVectorizationEngine.vectorize_demand and  *)
(* ValidateDemand applies validate_demand to the vector it returned and    *)
(* ValidateRequirements applies validate_requirements to the parsed list.  *)

MaxPhrases == 2

Phrases ==
    {<<n, "G", "cunchu">> : n \in {"0", "256"}}
    \cup {<<a, "-", b, "yuan">> : a \in {"0", "3000", "4000"}, b \in {"0", "3000"}}
    \cup {<<"8", "G", "neicun">>,
          <<"256", "G", "cunchu", "kongjian">>,
          <<"128", "-", "256", "G", "cunchu">>,
          <<"zhishao", "5000", "mAh", "dianchi">>,
          <<"buchaoguo", "3000", "yuan">>,
          <<"3000", "yuan", "zuoyou">>,
          <<"dayue", "5000", "yuan">>,
          <<"dayue", "3000", "duo", "yuan">>,
          <<"3000", "yuan">>,
          <<"yusuan", "3000", "-", "4000">>,
          <<"paizhao">>, <<"youxi">>, <<"pianyi">>, <<"gaoduan">>,
          <<"qingbo">>, <<"CPU">>, <<"nihao">>}

RECURSIVE Join(_)
Join(phrases) ==
    IF phrases = <<>> THEN <<>>
    ELSE IF Len(phrases) = 1 THEN phrases[1]
    ELSE phrases[1] \o <<",">> \o Join(Tail(phrases))

\* the phrases of the composite request of the parser's test, 256G存储，
\* 8G内存，拍照..., and of its variations
CompositePhrases ==
    {<<"256", "G", "cunchu">>, <<"0", "G", "cunchu">>,
     <<"256", "G", "cunchu", "kongjian">>, <<"8", "G", "neicun">>,
     <<"paizhao">>, <<"youxi">>, <<"buchaoguo", "3000", "yuan">>}

\* three such phrases, the memory phrase among them, in any order
CompositeTexts ==
    {Join(phrases) : phrases \in
        {ps \in [1..3 -> CompositePhrases] :
            \E i \in 1..3 : ps[i] = <<"8", "G", "neicun">>}}

Texts ==
    {Join(phrases) : phrases \in SeqsUpTo(Phrases, MaxPhrases)} \cup CompositeTexts

InitParse ==
    /\ pc = "init"
    /\ _phone_vectors_cache = EmptyCache
    /\ user_input \in Texts
    /\ phones = <<>>
    /\ requirements = <<>>
    /\ arg_phone = NoPhone
    /\ arg_budget = None
    /\ arg_demand = NoVector
    /\ arg_vector = NoVector
    /\ filtered_phones = NoResult
    /\ prev_filtered = NoResult
    /\ score = Zero
    /\ ret_vector = NoVector
    /\ top_n = 0
    /\ analysis = None
    /\ ret_demand = None
    /\ valid = FALSE
    /\ phones_with_vectors = NoResult
    /\ results = NoResult
    /\ ranked_phones = NoResult
    /\ recommendations = NoResult

ParseDemand ==
    /\ pc = "init"
    /\ analysis' = parse_demand(user_input)
    /\ pc' = IF analysis'.raised THEN "parse_raised" ELSE "parsed"
    /\ UNCHANGED _phone_vectors_cache
    /\ UNCHANGED <<phones, requirements, arg_phone, arg_budget, arg_demand,
                   arg_vector, filtered_phones, prev_filtered, score,
                   ret_vector, user_input, top_n, ret_demand, valid,
                   phones_with_vectors, results, ranked_phones,
                   recommendations>>

VectorizeDemand ==
    /\ pc = "init"
    /\ ret_demand' = vectorize_demand(user_input)
    /\ pc' = IF ret_demand'.raised THEN "demand_raised" ELSE "demand_vectorized"
    /\ UNCHANGED _phone_vectors_cache
    /\ UNCHANGED <<phones, requirements, arg_phone, arg_budget, arg_demand,
                   arg_vector, filtered_phones, prev_filtered, score,
                   ret_vector, user_input, top_n, analysis, valid,
                   phones_with_vectors, results, ranked_phones,
                   recommendations>>

ValidateDemand ==
    /\ pc = "demand_vectorized"
    /\ valid' = validate_demand(ret_demand)
    /\ pc' = "demand_validated"
    /\ UNCHANGED _phone_vectors_cache
    /\ UNCHANGED <<phones, requirements, arg_phone, arg_budget, arg_demand,
                   arg_vector, filtered_phones, prev_filtered, score,
                   ret_vector, user_input, top_n, analysis, ret_demand,
                   phones_with_vectors, results, ranked_phones,
                   recommendations>>

ValidateRequirements ==
    /\ pc = "parsed"
    /\ valid' = validate_requirements(analysis.specific_requirements)
    /\ pc' = "requirements_validated"
    /\ UNCHANGED _phone_vectors_cache
    /\ UNCHANGED <<phones, requirements, arg_phone, arg_budget, arg_demand,
                   arg_vector, filtered_phones, prev_filtered, score,
                   ret_vector, user_input, top_n, analysis, ret_demand,
                   phones_with_vectors, results, ranked_phones,
                   recommendations>>

NextParse ==
    ParseDemand \/ VectorizeDemand \/ ValidateDemand \/ ValidateRequirements

SpecParse == InitParse /\ [][NextParse]_vars

\* C5: every demand weight produced by parsing lies in [0,1]: every value of
\* parse_demand(text).vector_weights and every component of the vector that
\* vectorize_demand(text) returns, and validate_demand accepts every vector
\* that vectorize_demand returns.
C5_DemandWeightsInUnit ==
    /\ pc = "parsed" =>
          \A x \in Dims : InUnit(analysis.vector_weights[x])
    /\ pc \in {"demand_vectorized", "demand_validated"} =>
          \A x \in Dims : InUnit(ret_demand.vector[x])
    /\ pc = "demand_validated" => valid

\* a text whose price keywords add up to more than 1.0 before the cap
C5_Witness ==
    /\ pc = "demand_validated"
    /\ valid
    /\ RLt(OneQ, KeywordWeight(keyword_mapping["price_value"], 1,
                               lower(user_input)))
    /\ ret_demand.vector["price_value"] = OneQ

-----------------------------------------------------------------------------
(* EnhancedMatchingEngine.match_phones.                                    *)

_vectorize_phones(ps, budget_info) ==
    [i \in DOMAIN ps |->
        [phone |-> ps[i], phone_vector |-> vectorize_phone(ps[i], budget_info)]]

\* the 19 weights of the UserDemandVector (its focus_dimensions are not read
\* by the matcher)
_create_demand_vector(demand_analysis) == demand_analysis.vector_weights

\* one entry of results, before ranking; an exact_score that raised makes
\* every later score the ZeroDivisionError marker
ScoredPhone(phone, phone_vector, demand_analysis, demand_vector) ==
    LET vector_score == calculate_match_score(phone_vector, demand_vector)
        exact_score ==
            _calculate_exact_match_score(phone,
                                         demand_analysis.specific_requirements)
        comprehensive_score ==
            IF IsRaised(exact_score) THEN ZeroDivisionError
            ELSE RAdd(RMul(vector_score, vector_weight),
                      RMul(exact_score, exact_weight))
        final_score ==
            IF IsRaised(exact_score) THEN ZeroDivisionError
            ELSE _apply_bonuses_and_penalties(
                     comprehensive_score, phone,
                     demand_analysis.specific_requirements)
    IN  [phone |-> phone, phone_vector |-> phone_vector,
         vector_score |-> vector_score, exact_score |-> exact_score,
         comprehensive_score |-> comprehensive_score,
         match_score |-> final_score, rank |-> 0, reasons |-> <<>>]

\* mutant: sorted ascending and then reversed, which turns ties around
RECURSIVE sort_then_reverse(_)
sort_then_reverse(entries) ==
    IF entries = <<>> THEN <<>>
    ELSE LET front == sort_then_reverse(SubSeq(entries, 1, Len(entries) - 1))
             last == entries[Len(entries)]
             k == Cardinality({i \in DOMAIN front :
                                  RLt(last.match_score, front[i].match_score)})
         IN  SubSeq(front, 1, k) \o <<last>> \o SubSeq(front, k + 1, Len(front))

\* results.sort(key=match_score, reverse=True): a stable sort, so an entry
\* goes behind every entry whose score is at least its own
RECURSIVE sort_reverse(_)
sort_reverse(entries) ==
    IF entries = <<>> THEN <<>>
    ELSE LET front == sort_reverse(SubSeq(entries, 1, Len(entries) - 1))
             last == entries[Len(entries)]
             k == Cardinality({i \in DOMAIN front :
                                  RLe(last.match_score, front[i].match_score)})
         IN  SubSeq(front, 1, k) \o <<last>> \o SubSeq(front, k + 1, Len(front))

\* the loop of _calculate_comprehensive_scores: one entry per candidate
ScoreLoop(candidates, demand_analysis, demand_vector) ==
    [i \in DOMAIN candidates |->
        ScoredPhone(candidates[i].phone, candidates[i].phone_vector,
                    demand_analysis, demand_vector)]

\* the end of _calculate_comprehensive_scores: sort, then rank = i + 1 for
\* the entry at index i
SortAndRank(scored) ==
    LET sorted == sort_reverse(scored)
    IN  [i \in DOMAIN sorted |-> [sorted[i] EXCEPT !.rank = i]]

dimension_names(dimension) ==
    CASE dimension = "cpu_performance" -> "xingneng"
      [] dimension = "camera_quality" -> "paizhao"
      [] dimension = "battery_capacity" -> "xuhang"
      [] dimension = "weight_portability" -> "bianxie"
      [] dimension = "price_value" -> "xingjiabi"
      [] dimension = "screen_quality" -> "pingmu"
      [] dimension = "build_quality" -> "zuogong"
      [] dimension = "design_appeal" -> "waiguan"
      [] OTHER -> dimension

\* the reasons that the requirements contribute, in list order
RECURSIVE RequirementReasons(_, _, _)
RequirementReasons(phone, reqs, i) ==
    IF i > Len(reqs) THEN <<>>
    ELSE LET req == reqs[i]
             phone_value == _get_phone_value(phone, req.dimension)
             holds ==
                CASE req.requirement_type = "exact" ->
                       RLe(RAbs(RSub(phone_value, req.value)),
                           RMul(req.tolerance, req.value))
                  [] req.requirement_type = "minimum" ->
                       RLe(req.value, phone_value)
                  [] req.requirement_type = "maximum" ->
                       RLe(phone_value, req.value)
                  [] OTHER -> FALSE
         IN  (IF holds
              THEN <<[kind |-> req.requirement_type, value |-> req.value,
                      about |-> req.unit]>>
              ELSE <<>>)
             \o RequirementReasons(phone, reqs, i + 1)

_generate_recommendation_reasons(phone, phone_vector, demand_analysis) ==
    LET strong == SelectSeq(DimSeq,
                      LAMBDA x : /\ RLt(Q(3, 10), demand_analysis.vector_weights[x])
                                 /\ RLt(Q(7, 10), phone_vector[x]))
        reasons ==
            RequirementReasons(phone, demand_analysis.specific_requirements, 1)
            \o [i \in DOMAIN strong |->
                   [kind |-> "excellent", value |-> Zero,
                    about |-> dimension_names(strong[i])]]
        all == IF reasons = <<>>
               THEN <<[kind |-> "default", value |-> Zero, about |-> "overall"]>>
               ELSE reasons
    IN  SubSeq(all, 1, IF Len(all) < 3 THEN Len(all) ELSE 3)

\* ranked[:n]
Slice(ranked, n) == SubSeq(ranked, 1, IF Len(ranked) < n THEN Len(ranked) ELSE n)

\* the loop over ranked_phones[:top_n] that attaches the reasons
WithReasons(ranked, n, demand_analysis) ==
    [i \in DOMAIN ranked |->
        IF i <= n
        THEN [ranked[i] EXCEPT !.reasons =
                 _generate_recommendation_reasons(
                     ranked[i].phone, ranked[i].phone_vector, demand_analysis)]
        ELSE ranked[i]]

MaxTopN == 2

MatchTexts ==
    {<<>>,
     <<"256", "G", "cunchu", "kongjian">>,
     <<"zhishao", "5000", "mAh", "dianchi", ",", "buchaoguo", "3000", "yuan">>,
     <<"256", "G", "cunchu", ",", "buchaoguo", "3000", "yuan">>,
     <<"256", "G", "cunchu", ",", "8", "G", "neicun", ",", "paizhao">>,
     <<"3000", "-", "4000", "yuan">>,
     <<"4000", "-", "5000", "yuan">>,
     <<"3000", "-", "3000", "yuan">>,
     <<"4000", "-", "3000", "yuan">>,
     <<"0", "-", "0", "yuan">>,
     <<"0", "G", "cunchu">>,
     <<"paizhao">>,
     <<"nihao">>}

InitMatch ==
    /\ pc = "init"
    /\ _phone_vectors_cache = EmptyCache
    /\ phones \in Catalogs
    /\ user_input \in MatchTexts
    /\ top_n \in 1..MaxTopN
    /\ requirements = <<>>
    /\ arg_phone = NoPhone
    /\ arg_budget = None
    /\ arg_demand = NoVector
    /\ arg_vector = NoVector
    /\ filtered_phones = NoResult
    /\ prev_filtered = NoResult
    /\ score = Zero
    /\ ret_vector = NoVector
    /\ analysis = None
    /\ ret_demand = None
    /\ valid = FALSE
    /\ phones_with_vectors = NoResult
    /\ results = NoResult
    /\ ranked_phones = NoResult
    /\ recommendations = NoResult

\* match_phones, from the call to the return or to the exception that
\* leaves it.  prev_filtered holds what _pre_filter_phones returned and
\* filtered_phones the candidate list after the fallback; a local that the
\* call did not reach before an exception stays unset.
MatchPhones ==
    /\ pc = "init"
    /\ analysis' = parse_demand(user_input)
    /\ prev_filtered' =
          IF analysis'.raised THEN NoResult
          ELSE _pre_filter_phones(phones, analysis'.specific_requirements)
    /\ filtered_phones' =
          IF analysis'.raised THEN NoResult
          ELSE IF prev_filtered' = <<>> THEN phones
          ELSE prev_filtered'
    /\ phones_with_vectors' =
          IF analysis'.raised THEN NoResult
          ELSE _vectorize_phones(filtered_phones', analysis'.budget_info)
    /\ LET vectorized ==
               /\ ~analysis'.raised
               /\ \A i \in DOMAIN phones_with_vectors' :
                     ~IsRaised(phones_with_vectors'[i].phone_vector["price_value"])
       IN  /\ results' =
                 IF vectorized
                 THEN ScoreLoop(phones_with_vectors', analysis',
                                _create_demand_vector(analysis'))
                 ELSE NoResult
           /\ LET scored ==
                      /\ vectorized
                      /\ \A i \in DOMAIN results' :
                            ~IsRaised(results'[i].match_score)
              IN  /\ ranked_phones' =
                        IF scored
                        THEN WithReasons(SortAndRank(results'), top_n, analysis')
                        ELSE NoResult
                  /\ recommendations' =
                        IF scored THEN Slice(ranked_phones', top_n)
                        ELSE NoResult
                  /\ pc' = IF scored THEN "matched" ELSE "match_raised"
    /\ UNCHANGED _phone_vectors_cache
    /\ UNCHANGED <<phones, requirements, arg_phone, arg_budget, arg_demand,
                   arg_vector, score, ret_vector, user_input, top_n,
                   ret_demand, valid>>

NextMatch == MatchPhones

SpecMatch == InitMatch /\ [][NextMatch]_vars

-----------------------------------------------------------------------------
(* Claims about match_phones.                                              *)

\* C2: for every non-empty catalog, every text and every top_n >= 1,
\* match_phones returns a non-empty list; when no phone satisfies all
\* extracted requirements the candidate list is the whole catalog, and the
\* number of results is min(top_n, size of the candidate list).
C2_NonEmptyResult ==
    (pc \in {"matched", "match_raised"} /\ phones # <<>>) =>
        /\ pc = "matched"
        /\ recommendations # <<>>
        /\ prev_filtered = <<>> => filtered_phones = phones
        /\ Len(recommendations) =
              IF top_n < Len(filtered_phones) THEN top_n
              ELSE Len(filtered_phones)

\* what remains of C2 in the runs that return
NonEmptyResultWhenReturning ==
    (pc = "matched" /\ phones # <<>>) =>
        /\ recommendations # <<>>
        /\ prev_filtered = <<>> => filtered_phones = phones
        /\ Len(recommendations) =
              IF top_n < Len(filtered_phones) THEN top_n
              ELSE Len(filtered_phones)

RECURSIVE RPow(_, _)
RPow(x, n) == IF n = 0 THEN OneQ ELSE RMul(x, RPow(x, n - 1))

\* the requirement is met within half its tolerance
WithinHalfTolerance(phone, req) ==
    RLe(RAbs(RSub(_get_phone_value(phone, req.dimension), req.value)),
        RMul(RMul(req.tolerance, req.value), Q(1, 2)))

HowMany(reqs, Test(_)) == Cardinality({i \in DOMAIN reqs : Test(reqs[i])})

\* match_score as the contract states it, from the two partial scores
ContractMatchScore(result, reqs) ==
    LET phone == result.phone
        exact_met(req) ==
            req.requirement_type = "exact" /\ WithinHalfTolerance(phone, req)
        range_met(req) ==
            req.requirement_type = "range" /\ WithinHalfTolerance(phone, req)
        minimum_violated(req) ==
            /\ req.requirement_type = "minimum"
            /\ RLt(_get_phone_value(phone, req.dimension), req.value)
        maximum_violated(req) ==
            /\ req.requirement_type = "maximum"
            /\ RLt(req.value, _get_phone_value(phone, req.dimension))
        combined == RAdd(RMul(result.vector_score, Q(7, 10)),
                         RMul(result.exact_score, Q(3, 10)))
        with_bonus ==
            RAdd(combined,
                 RAdd(RMul(Q(2, 10), Int2Q(HowMany(reqs, exact_met))),
                      RMul(Q(1, 10), Int2Q(HowMany(reqs, range_met)))))
        penalised ==
            RMul(with_bonus,
                 RMul(RPow(Q(5, 10), HowMany(reqs, minimum_violated)),
                      RPow(Q(7, 10), HowMany(reqs, maximum_violated))))
    IN  RMin(RMax(penalised, Zero), OneQ)

\* C9: for every candidate, match_score is the clamp to [0,1] of
\* vector_score*0.7 + exact_score*0.3, plus 0.2 for each exact and 0.1 for each
\* range requirement met within half its tolerance, times 0.5 for each
\* violated minimum and 0.7 for each violated maximum requirement; it is
\* therefore in [0,1].
C9_MatchScoreCombination ==
    pc = "matched" =>
        \A i \in DOMAIN ranked_phones :
            /\ ranked_phones[i].match_score =
                  ContractMatchScore(ranked_phones[i],
                                     analysis.specific_requirements)
            /\ InUnit(ranked_phones[i].match_score)

\* a candidate that earns the exact bonus and suffers the maximum penalty
C9_Witness ==
    /\ pc = "matched"
    /\ \E i \in DOMAIN ranked_phones :
          LET phone == ranked_phones[i].phone
              reqs == analysis.specific_requirements
          IN  /\ \E k \in DOMAIN reqs :
                    /\ reqs[k].requirement_type = "exact"
                    /\ WithinHalfTolerance(phone, reqs[k])
              /\ \E k \in DOMAIN reqs :
                    /\ reqs[k].requirement_type = "maximum"
                    /\ RLt(reqs[k].value,
                           _get_phone_value(phone, reqs[k].dimension))
              /\ RLt(Zero, ranked_phones[i].match_score)
              /\ RLt(ranked_phones[i].match_score, OneQ)

\* C10: the returned list is ordered by match_score descending, candidates
\* with equal match_score keep their catalog order, and the i-th returned
\* element has rank i.
C10_RankedOrder ==
    pc = "matched" =>
        /\ \A i, j \in DOMAIN recommendations :
              i < j => RLe(recommendations[j].match_score,
                           recommendations[i].match_score)
        /\ \E f \in [DOMAIN ranked_phones -> DOMAIN filtered_phones] :
              /\ \A i, j \in DOMAIN ranked_phones : i # j => f[i] # f[j]
              /\ \A i \in DOMAIN ranked_phones :
                    ranked_phones[i].phone = filtered_phones[f[i]]
              /\ \A i, j \in DOMAIN ranked_phones :
                    (i < j /\ ranked_phones[i].match_score
                                  = ranked_phones[j].match_score)
                        => f[i] < f[j]
        /\ Len(recommendations) <= Len(ranked_phones)
        /\ \A i \in DOMAIN recommendations :
              /\ recommendations[i] = ranked_phones[i]
              /\ recommendations[i].rank = i

\* two different phones with the same match_score are both returned
C10_Witness ==
    /\ pc = "matched"
    /\ Len(recommendations) >= 2
    /\ recommendations[1].phone # recommendations[2].phone
    /\ recommendations[1].match_score = recommendations[2].match_score

-----------------------------------------------------------------------------
(* Target-price mode of _calculate_price_value_score.                      *)

\* the call was made in target-price mode: a budget descriptor with a
\* positive target price and a phone with a positive price
TargetPriceMode ==
    /\ pc \in {"vectorized", "raised"}
    /\ ~arg_budget.is_none
    /\ RLt(Zero, arg_budget.target_price)
    /\ arg_phone.price > 0

PricedAtTarget == Int2Q(arg_phone.price) = arg_budget.target_price

PricedAtToleranceEdge ==
    Int2Q(arg_phone.price) =
        RMul(arg_budget.target_price, RAdd(OneQ, arg_budget.tolerance))

\* C11: in target-price mode a phone priced exactly at target_price gets
\* price_value = 1.0 and a phone priced at target_price * (1 + t) gets
\* price_value = 0.7, for every tolerance t the budget descriptor carries.
C11_TargetPriceScores ==
    TargetPriceMode =>
        /\ PricedAtTarget =>
               pc = "vectorized" /\ ret_vector["price_value"] = OneQ
        /\ (PricedAtToleranceEdge /\ ~PricedAtTarget) =>
               pc = "vectorized" /\ ret_vector["price_value"] = Q(7, 10)

\* the same for the descriptors whose tolerance is positive, where the
\* division price_ratio / tolerance is defined and price_ratio <= tolerance
\* is the test the spec means
TargetPriceScoresForPositiveTolerance ==
    (TargetPriceMode /\ RLt(Zero, arg_budget.tolerance)) =>
        /\ pc = "vectorized"
        /\ PricedAtTarget => ret_vector["price_value"] = OneQ
        /\ PricedAtToleranceEdge => ret_vector["price_value"] = Q(7, 10)

\* both cases of the rule happen for a positive tolerance
TargetPriceCasesReached ==
    /\ TargetPriceMode
    /\ RLt(Zero, arg_budget.tolerance)
    /\ PricedAtToleranceEdge
    /\ ret_vector["price_value"] = Q(7, 10)

-----------------------------------------------------------------------------
(* Prices above the budget.                                                *)

\* the phone's price exceeds max_budget by more than the given share of it
ExceedsMaxBudgetBy(share) ==
    RLt(RMul(arg_budget.max_budget, RAdd(OneQ, share)), Int2Q(arg_phone.price))

\* the descriptor is range shaped: no target price, 0 < min_budget <= max_budget
RangeShaped ==
    /\ ~RLt(Zero, arg_budget.target_price)
    /\ RLt(Zero, arg_budget.min_budget)
    /\ RLe(arg_budget.min_budget, arg_budget.max_budget)

\* price_ratio - tolerance of the target-price branch
RatioBeyondTolerance ==
    RSub(RDiv(RAbs(RSub(Int2Q(arg_phone.price), arg_budget.target_price)),
              arg_budget.target_price),
         arg_budget.tolerance)

\* C12 as stated: for every budget descriptor with max_budget > 0, a phone
\* whose price exceeds max_budget by more than 50% of max_budget gets
\* price_value = 0.0.
C12_ZeroBeyondHalfOverMax ==
    (/\ pc = "vectorized"
     /\ ~arg_budget.is_none
     /\ RLt(Zero, arg_budget.max_budget)
     /\ ExceedsMaxBudgetBy(Q(1, 2)))
        => ret_vector["price_value"] = Zero

\* C12 amended: price_value is never negative; with a range-shaped
\* descriptor it is 0.0 once the price is at least twice max_budget (100%
\* over, not 50%), and with a target price it is 0.0 once
\* |price - target_price| / target_price - tolerance reaches 1.4.
C12_ZeroAtTwiceMax ==
    (pc = "vectorized" /\ ~arg_budget.is_none /\ arg_phone.price > 0) =>
        /\ RLe(Zero, ret_vector["price_value"])
        /\ (/\ RangeShaped
            /\ RLe(RMul(arg_budget.max_budget, Int2Q(2)), Int2Q(arg_phone.price)))
               => ret_vector["price_value"] = Zero
        /\ (/\ RLt(Zero, arg_budget.target_price)
            /\ RLe(Q(14, 10), RatioBeyondTolerance))
               => ret_vector["price_value"] = Zero
        /\ (/\ RLt(Zero, arg_budget.target_price)
            /\ RLt(arg_budget.tolerance, RAdd(RatioBeyondTolerance, arg_budget.tolerance))
            /\ RLt(RatioBeyondTolerance, Q(14, 10)))
               => RLt(Zero, ret_vector["price_value"])

\* a phone priced more than 50% but less than 100% over the max_budget of a
\* range-shaped descriptor keeps a positive price_value
C12_Witness ==
    /\ pc = "vectorized"
    /\ ~arg_budget.is_none
    /\ RangeShaped
    /\ ExceedsMaxBudgetBy(Q(1, 2))
    /\ ~ExceedsMaxBudgetBy(OneQ)
    /\ RLt(Zero, ret_vector["price_value"])
    /\ RLt(ret_vector["price_value"], Q(1, 4))

-----------------------------------------------------------------------------
(* What parse_demand extracts from a request.                              *)

\* the positions of the text where an amount is named as 'N G <word>'
AmountsNamed(text, word) ==
    {i \in 1..(Len(text) - 2) :
        text[i] \in Digits /\ text[i + 1] = "G" /\ text[i + 2] = word}

\* the first amount the text names that way
FirstAmount(text, word) == Int2Q(int(text[Min(AmountsNamed(text, word))]))

HasRequirement(reqs, dimension, value, unit, requirement_type) ==
    \E i \in DOMAIN reqs :
        /\ reqs[i].dimension = dimension
        /\ reqs[i].value = value
        /\ reqs[i].unit = unit
        /\ reqs[i].requirement_type = requirement_type

\* C13: for a text that names a storage amount as 'N G存储' and a memory
\* amount as 'M G内存', parse_demand returns an exact storage_speed
\* requirement (value N, unit GB, tolerance 0) and an exact memory_capacity
\* requirement (value M, unit GB), and with a photography keyword in the
\* text vector_weights['camera_quality'] >= 0.6.  N and M are the first
\* amounts named.
C13_StorageAndMemoryExact ==
    (/\ pc = "parsed"
     /\ AmountsNamed(user_input, "cunchu") # {}
     /\ AmountsNamed(user_input, "neicun") # {})
        => /\ \E i \in DOMAIN analysis.specific_requirements :
                 analysis.specific_requirements[i] =
                     SpecificRequirement("storage_speed",
                                         FirstAmount(user_input, "cunchu"),
                                         "GB", Zero, "exact")
           /\ HasRequirement(analysis.specific_requirements, "memory_capacity",
                             FirstAmount(user_input, "neicun"), "GB", "exact")
           /\ (\E i \in DOMAIN user_input : user_input[i] = "paizhao")
                 => RLe(Q(6, 10), analysis.vector_weights["camera_quality"])

\* 256G存储，8G内存，拍照 has been parsed
C13_Witness ==
    /\ pc = "parsed"
    /\ user_input = <<"256", "G", "cunchu", ",", "8", "G", "neicun", ",", "paizhao">>
    /\ HasRequirement(analysis.specific_requirements, "storage_speed",
                      Int2Q(256), "GB", "exact")
    /\ HasRequirement(analysis.specific_requirements, "memory_capacity",
                      Int2Q(8), "GB", "exact")
    /\ analysis.vector_weights["camera_quality"] = Q(7, 10)


\* the positions of the text where a range is named as 'a-b' followed by
\* the given tokens
RangesNamed(text, unit) ==
    {i \in 1..(Len(text) - 2 - Len(unit)) :
        /\ text[i] \in Digits
        /\ text[i + 1] = "-"
        /\ text[i + 2] \in Digits
        /\ SubSeq(text, i + 3, i + 2 + Len(unit)) = unit}

FirstRange(text, unit) ==
    LET i == Min(RangesNamed(text, unit))
    IN  <<Int2Q(int(text[i])), Int2Q(int(text[i + 2]))>>

\* the text names a budget range 'a-b元' and a storage range 'c-dG存储'
NamesBudgetAndStorageRange ==
    /\ RangesNamed(user_input, <<"yuan">>) # {}
    /\ RangesNamed(user_input, <<"G", "cunchu">>) # {}

StorageRangeMidpoint ==
    LET cd == FirstRange(user_input, <<"G", "cunchu">>)
    IN  HasRequirement(analysis.specific_requirements, "storage_speed",
                       RDiv(RAdd(cd[1], cd[2]), Int2Q(2)), "GB", "range")

BudgetIsNamedRange ==
    LET ab == FirstRange(user_input, <<"yuan">>)
    IN  /\ analysis.budget_info.has_budget
        /\ analysis.budget_info.min_budget = ab[1]
        /\ analysis.budget_info.max_budget = ab[2]

\* C14: for a text with a budget range 'a-b元' and a storage range
\* 'c-dG存储', in whichever order, parse_demand returns budget_info with
\* has_budget, min_budget = a and max_budget = b, and a storage_speed
\* requirement of type range whose value is the midpoint (c+d)/2.
C14_BudgetAndStorageRange ==
    (pc = "parsed" /\ NamesBudgetAndStorageRange) =>
        BudgetIsNamedRange /\ StorageRangeMidpoint

\* what holds in either order: the storage range requirement; and the
\* budget is the named range when that range comes first in the text
RangesWhenBudgetComesFirst ==
    (pc = "parsed" /\ NamesBudgetAndStorageRange) =>
        /\ StorageRangeMidpoint
        /\ Min(RangesNamed(user_input, <<"yuan">>))
               < Min(RangesNamed(user_input, <<"G", "cunchu">>))
             => BudgetIsNamedRange

\* a text such as 128-256G存储，0-3000元 parsed: the storage range, named
\* first, is taken as the budget
StorageRangeTakenAsBudget ==
    /\ pc = "parsed"
    /\ NamesBudgetAndStorageRange
    /\ analysis.budget_info.min_budget = Int2Q(128)
    /\ analysis.budget_info.max_budget = Int2Q(256)
    /\ StorageRangeMidpoint


\* some pattern of the list matches the text
MatchesAny(patterns, text) ==
    \E k \in DOMAIN patterns : re_search(patterns[k], text).matched

\* the text matches no numeric pattern (of the number, range and budget
\* tables), holds no comparison word and no word of a keyword group
NoRuleMatches(text) ==
    /\ \A c \in DOMAIN number_patterns :
           ~MatchesAny(number_patterns[c].patterns, text)
    /\ \A c \in DOMAIN range_patterns :
           ~MatchesAny(range_patterns[c].patterns, text)
    /\ ~MatchesAny(budget_range_patterns, text)
    /\ ~MatchesAny(fuzzy_patterns, text)
    /\ \A c \in DOMAIN comparison_patterns :
           ~any(comparison_patterns[c].keywords, text)
    /\ ~any(performance_words \o camera_words \o battery_words \o portable_words,
            lower(text))

\* C15: for the empty text and every text that matches no numeric pattern,
\* no comparison word and no keyword group, parse_demand returns
\* specific_requirements = [], has_budget = false and the default
\* focus_dimensions [cpu_performance, camera_quality, battery_capacity,
\* price_value].
C15_DefaultFocus ==
    (pc \in {"parsed", "parse_raised"} /\ NoRuleMatches(user_input)) =>
        /\ pc = "parsed"
        /\ analysis.specific_requirements = <<>>
        /\ ~analysis.budget_info.has_budget
        /\ analysis.focus_dimensions =
               <<"cpu_performance", "camera_quality", "battery_capacity",
                 "price_value">>

\* a text without any rule's words or numbers, 你好，3000元, has been parsed
C15_Witness ==
    /\ pc = "parsed"
    /\ user_input = <<"nihao", ",", "3000", "yuan">>
    /\ NoRuleMatches(user_input)
    /\ analysis.focus_dimensions = default_focus_dimensions

-----------------------------------------------------------------------------
(* Exceptions.                                                             *)

\* C16: parsing and matching never raise: for every text (texts whose
\* captured numbers are 0 and reversed ranges included) and every catalog,
\* parse_demand and match_phones return normally, no division by zero
\* occurring in the tolerance arithmetic.
C16_NeverRaises == pc # "match_raised"

\* the three places where match_phones raises ZeroDivisionError: in
\* parse_demand (0-0元), in vectorize_phone (3000-3000元 and a phone priced
\* 3000) and in _calculate_exact_match_score (0G存储)
RaisedInParseDemand ==
    pc = "match_raised" /\ analysis.raised

RaisedInVectorizePhone ==
    /\ pc = "match_raised"
    /\ ~analysis.raised
    /\ \E i \in DOMAIN phones_with_vectors :
           IsRaised(phones_with_vectors[i].phone_vector["price_value"])

RaisedInExactMatchScore ==
    /\ pc = "match_raised"
    /\ ~analysis.raised
    /\ \A i \in DOMAIN phones_with_vectors :
           ~IsRaised(phones_with_vectors[i].phone_vector["price_value"])
    /\ \E i \in DOMAIN analysis.specific_requirements :
           analysis.specific_requirements[i].value = Zero

\* a raise happens only in those places, and only for a text with a number 0
\* or a range a-a
RaisesOnlyOnZero ==
    pc = "match_raised" =>
        /\ RaisedInParseDemand \/ RaisedInVectorizePhone \/ RaisedInExactMatchScore
        /\ \/ \E i \in DOMAIN user_input : user_input[i] = "0"
           \/ \E i \in 1..(Len(user_input) - 2) :
                  /\ user_input[i] \in Digits
                  /\ user_input[i + 1] = "-"
                  /\ user_input[i + 2] = user_input[i]

\* a reversed range is matched without an exception
ReversedRangeMatched ==
    /\ pc = "matched"
    /\ user_input = <<"4000", "-", "3000", "yuan">>
    /\ phones # <<>>

-----------------------------------------------------------------------------
(* The budget descriptor.                                                  *)

\* the invariant of a descriptor with has_budget = true
BudgetWellFormed(b) ==
    \/ RLt(Zero, b.target_price) /\ InUnit(b.tolerance)
    \/ /\ RLe(b.min_budget, b.max_budget)
       /\ RLt(Zero, b.min_budget)
       /\ RLt(Zero, b.max_budget)

\* C17: every budget descriptor returned with has_budget = true, by
\* DemandVectorizationEngine.extract_budget_info or by
\* EnhancedDemandParser._extract_budget_info, satisfies (target_price > 0
\* and tolerance in [0,1]) or (min_budget <= max_budget and both > 0).
C17_BudgetInvariant ==
    /\ (pc = "parsed" /\ analysis.budget_info.has_budget)
           => BudgetWellFormed(analysis.budget_info)
    /\ (pc \in {"demand_vectorized", "demand_validated"}
            /\ ret_demand.budget_info.has_budget)
           => BudgetWellFormed(ret_demand.budget_info)

\* a descriptor that breaks the invariant comes from a range a-b with b < a
\* (negative tolerance) or with a = 0 (tolerance 2.0), or from a price 0
BrokenOnlyByRangeOrZero(b) ==
    (b.has_budget /\ ~BudgetWellFormed(b)) =>
        \/ /\ MatchesAny(budget_range_patterns, user_input)
           /\ RLt(b.max_budget, b.min_budget) \/ b.min_budget = Zero
        \/ b.target_price = Zero

BrokenBudgetFromRange ==
    /\ pc = "parsed" => BrokenOnlyByRangeOrZero(analysis.budget_info)
    /\ pc \in {"demand_vectorized", "demand_validated"}
           => BrokenOnlyByRangeOrZero(ret_demand.budget_info)

\* 4000-3000元 parsed: has_budget with tolerance -2/7 and min_budget above
\* max_budget
ReversedRangeBudget ==
    /\ pc = "parsed"
    /\ analysis.budget_info.has_budget
    /\ analysis.budget_info.tolerance = Q(-2, 7)
    /\ RLt(analysis.budget_info.max_budget, analysis.budget_info.min_budget)

-----------------------------------------------------------------------------
(* The requirements parse_demand produces.                                 *)

RequirementWellFormed(r) ==
    /\ RLt(Zero, r.value)
    /\ InUnit(r.tolerance)
    /\ r.requirement_type \in {"exact", "range", "minimum", "maximum"}

\* C18: every SpecificRequirement that parse_demand produces has value > 0,
\* tolerance in [0,1] and a requirement_type among exact, range, minimum and
\* maximum, so validate_requirements returns true on every list the parser
\* produces.
C18_RequirementsWellFormed ==
    /\ pc \in {"parsed", "requirements_validated"} =>
           \A i \in DOMAIN analysis.specific_requirements :
               RequirementWellFormed(analysis.specific_requirements[i])
    /\ pc = "requirements_validated" => valid

\* validate_requirements rejects exactly the lists with a requirement that is
\* not well formed, the requirement_type is always one of the four, and an
\* ill-formed requirement has value 0 or comes from a range a-b with b < a or
\* a = 0
RequirementsIllFormedOnlyByZeroOrRange ==
    pc = "requirements_validated" =>
        /\ valid = \A i \in DOMAIN analysis.specific_requirements :
                       RequirementWellFormed(analysis.specific_requirements[i])
        /\ \A i \in DOMAIN analysis.specific_requirements :
               LET r == analysis.specific_requirements[i]
               IN  /\ r.requirement_type \in RequirementTypes
                   /\ ~RequirementWellFormed(r) =>
                          \/ r.value = Zero
                          \/ /\ r.requirement_type = "range"
                             /\ RLt(r.tolerance, Zero) \/ r.tolerance = Int2Q(2)

\* 0G存储 parsed and rejected by validate_requirements
ZeroRequirementRejected ==
    /\ pc = "requirements_validated"
    /\ user_input = <<"0", "G", "cunchu">>
    /\ analysis.specific_requirements[1].value = Zero
    /\ ~valid

-----------------------------------------------------------------------------
(* Comparison words.                                                       *)

\* the numbers that the text qualifies with the comparison word and names
\* with the unit: 'word N unit'
Qualified(text, word, unit) ==
    {Int2Q(int(text[i + 1])) : i \in
        {k \in 1..(Len(text) - 1 - Len(unit)) :
            /\ text[k] = word
            /\ text[k + 1] \in Digits
            /\ SubSeq(text, k + 2, k + 1 + Len(unit)) = unit}}

\* the amounts of money the text names: 'N 元'
PricesNamed(text) ==
    {Int2Q(int(text[i])) : i \in
        {k \in 1..(Len(text) - 1) : text[k] \in Digits /\ text[k + 1] = "yuan"}}

\* C19: when a comparison word qualifies a number, the requirement
\* extracted for that number has requirement_type minimum (at-least words)
\* or maximum (no-more-than words) and keeps the dimension of the number's
\* unit: in 至少5000mAh电池，不超过3000元 the battery figure yields a
\* battery_capacity requirement and every price_value requirement has the
\* value 3000, the price named.
C19_ComparisonKeepsDimension ==
    pc = "parsed" =>
        /\ \A n \in Qualified(user_input, "zhishao", <<"mAh", "dianchi">>) :
               HasRequirement(analysis.specific_requirements,
                              "battery_capacity", n, "mAh", "minimum")
        /\ \A n \in Qualified(user_input, "buchaoguo", <<"yuan">>) :
               HasRequirement(analysis.specific_requirements,
                              "price_value", n, "yuan", "maximum")
        /\ \A i \in DOMAIN analysis.specific_requirements :
               LET r == analysis.specific_requirements[i]
               IN  (r.dimension = "price_value"
                        /\ r.requirement_type \in {"minimum", "maximum"})
                       => r.value \in PricesNamed(user_input)

\* what the comparison step does: every minimum or maximum requirement is a
\* price_value requirement in yuan with tolerance 0.1, whatever the unit of
\* the number, and the requirements of steps 1 and 2 keep their types
ComparisonIsAlwaysPrice ==
    pc = "parsed" =>
        /\ \A i \in DOMAIN analysis.specific_requirements :
               LET r == analysis.specific_requirements[i]
               IN  r.requirement_type \in {"minimum", "maximum"} =>
                       /\ r.dimension = "price_value"
                       /\ r.unit = "yuan"
                       /\ r.tolerance = Q(1, 10)
        /\ \A n \in Qualified(user_input, "zhishao", <<"mAh", "dianchi">>) :
               /\ \E m \in Qualified(user_input, "zhishao", <<"mAh", "dianchi">>) :
                      /\ HasRequirement(analysis.specific_requirements,
                                        "battery_capacity", m, "mAh", "exact")
                      /\ HasRequirement(analysis.specific_requirements,
                                        "price_value", m, "yuan", "minimum")
               /\ ~HasRequirement(analysis.specific_requirements,
                                  "battery_capacity", n, "mAh", "minimum")

\* 至少5000mAh电池，不超过3000元 parsed: an exact battery requirement, a
\* minimum price of 5000 yuan and a maximum price of 3000 yuan
BatteryFigureTakenAsPrice ==
    /\ pc = "parsed"
    /\ user_input = <<"zhishao", "5000", "mAh", "dianchi", ",",
                      "buchaoguo", "3000", "yuan">>
    /\ analysis.specific_requirements =
           <<SpecificRequirement("battery_capacity", Int2Q(5000), "mAh",
                                 Q(5, 100), "exact"),
             SpecificRequirement("price_value", Int2Q(5000), "yuan",
                                 Q(1, 10), "minimum"),
             SpecificRequirement("price_value", Int2Q(3000), "yuan",
                                 Q(1, 10), "maximum")>>

-----------------------------------------------------------------------------
(* Weights of the dimensions with an explicit requirement.                 *)

\* C20: each dimension with at least one explicit requirement in
\* specific_requirements has weight exactly 0.8 in
\* parse_demand(text).vector_weights, whatever keywords and budget
\* information the text contains.
C20_ExplicitDimensionWeight ==
    pc = "parsed" =>
        \A i \in DOMAIN analysis.specific_requirements :
            /\ analysis.specific_requirements[i].dimension \in Dims
            /\ analysis.vector_weights[
                   analysis.specific_requirements[i].dimension] = Q(8, 10)

\* a battery requirement together with a battery keyword (0.7) and a price
\* requirement together with a budget (0.7): both weights are 0.8
C20_Witness ==
    /\ pc = "parsed"
    /\ any(battery_words, lower(user_input))
    /\ analysis.budget_info.has_budget
    /\ InSeq("battery_capacity", ReqDimensions(analysis.specific_requirements))
    /\ InSeq("price_value", ReqDimensions(analysis.specific_requirements))
    /\ analysis.vector_weights["battery_capacity"] = Q(8, 10)
    /\ analysis.vector_weights["price_value"] = Q(8, 10)

-----------------------------------------------------------------------------
(* The budget cascade.                                                     *)

\* the first rule of the cascade that matches the text
FirstBudgetRule(text) ==
    IF MatchesAny(budget_range_patterns, text) THEN "range"
    ELSE IF MatchesAny(fuzzy_patterns, text) THEN "fuzzy"
    ELSE IF MatchesAny(single_patterns, text) THEN "single"
    ELSE IF any(economy_keywords, text) \/ any(flagship_keywords, text)
    THEN "keyword"
    ELSE "none"

\* the tolerance of the fuzzy rule: 15% under 2000, 20% under 5000, else 25%
FuzzyTolerance(target_price) ==
    IF RLt(target_price, Int2Q(2000)) THEN Q(15, 100)
    ELSE IF RLt(target_price, Int2Q(5000)) THEN Q(20, 100)
    ELSE Q(25, 100)

\* the descriptor b is the one of the first rule that matches the text
FollowsCascade(b, text) ==
    LET rule == FirstBudgetRule(text)
    IN  /\ b.has_budget = (rule # "none")
        /\ rule = "range" =>
               /\ b.target_price = RDiv(RAdd(b.min_budget, b.max_budget), Int2Q(2))
               /\ <<b.min_budget, b.max_budget>> \in
                      {<<Int2Q(int(text[i])), Int2Q(int(text[i + 2]))>> :
                           i \in {k \in 1..(Len(text) - 2) :
                                     /\ text[k] \in Digits
                                     /\ text[k + 1] = "-"
                                     /\ text[k + 2] \in Digits}}
        /\ rule = "fuzzy" => b.tolerance = FuzzyTolerance(b.target_price)
        /\ rule = "single" => b.tolerance = Q(10, 100)
        /\ rule = "keyword" =>
               <<b.target_price, b.min_budget, b.max_budget, b.tolerance>> \in
                   {<<Int2Q(3000), Int2Q(1500), Int2Q(4500), Q(1, 2)>>,
                    <<Int2Q(8000), Int2Q(6000), Int2Q(12000), Q(375, 1000)>>}
        /\ rule \in {"fuzzy", "single"} =>
               /\ \E i \in DOMAIN text :
                      text[i] \in Digits /\ b.target_price = Int2Q(int(text[i]))
               /\ b.min_budget = Int2Q(Trunc(RMul(b.target_price,
                                                  RSub(OneQ, b.tolerance))))
               /\ b.max_budget = Int2Q(Trunc(RMul(b.target_price,
                                                  RAdd(OneQ, b.tolerance))))
        /\ rule = "none" => b = DefaultBudget

\* C21: budget extraction tries (1) numeric range, (2) fuzzy expression with
\* tolerance 15% under 2000, 20% under 5000, else 25%, (3) single literal
\* price with tolerance 10%, (4) qualitative keywords with canned ranges, and
\* returns the descriptor of the first rule that matches, for the budget_info
\* of parse_demand as well as for extract_budget_info.
C21_BudgetCascade ==
    /\ pc = "parsed" => FollowsCascade(analysis.budget_info, user_input)
    /\ pc = "demand_vectorized"
           => FollowsCascade(ret_demand.budget_info, user_input)

\* extract_budget_info follows the cascade; the budget_info of parse_demand
\* follows it when the first rule is the range rule or the fuzzy rule with a
\* target of 2000 or more, and is the no-budget default when the first rule
\* is the single price or a keyword
CascadeOfExtractBudgetInfoOnly ==
    /\ pc = "demand_vectorized"
           => FollowsCascade(ret_demand.budget_info, user_input)
    /\ pc = "parsed" =>
           LET rule == FirstBudgetRule(user_input)
               b == analysis.budget_info
           IN  /\ rule = "range" => FollowsCascade(b, user_input)
               /\ rule = "fuzzy" =>
                      b.tolerance = IF RLt(b.target_price, Int2Q(5000))
                                    THEN Q(20, 100) ELSE Q(25, 100)
               /\ rule \in {"single", "keyword", "none"} => b = DefaultBudget

\* 3000元 parsed: the single price rule matches and parse_demand returns no
\* budget
SinglePriceIgnoredByParser ==
    /\ pc = "parsed"
    /\ user_input = <<"3000", "yuan">>
    /\ FirstBudgetRule(user_input) = "single"
    /\ ~analysis.budget_info.has_budget

-----------------------------------------------------------------------------
(* NewRecommendationEngine (new_recommendation_engine.py): one engine      *)
(* whose recommend, find_similar_phones and clear_cache are called in any  *)
(* order.  recommend leaves its budget_info in arg_budget, its             *)
(* phones_with_vectors and its ranked list; find_similar_phones leaves its *)
(* target in arg_phone and the similar phones in results.  A key is the    *)
(* f-string of _vectorize_phones, kept as the tuple of its parts.          *)

\* str(target_price) inside the key: the range rule of extract_budget_info
\* stores the float (min_val + max_val) / 2, printed as 4000.0, every other
\* rule an int, printed as 4000
target_price_str(text, budget_info) ==
    <<IF FirstMatch(budget_range_patterns, 1, text) # <<>> THEN "float" ELSE "int",
      budget_info.target_price>>

phone_key(phone, budget_info, price_str) ==
    IF ~budget_info.is_none /\ budget_info.has_budget
    THEN <<phone.name, phone.cpu, phone.price, "budget", price_str>>
    ELSE <<phone.name, phone.cpu, phone.price>>

\* the loop of NewRecommendationEngine._vectorize_phones over ps[1..i]: the
\* cache and the list after it; a raise of vectorize_phone leaves the loop
\* with the entries written so far
RECURSIVE CacheLoop(_, _, _, _, _)
CacheLoop(cache, ps, i, budget_info, price_str) ==
    IF i = 0 THEN [cache |-> cache, phones_with_vectors |-> <<>>, raised |-> FALSE]
    ELSE LET acc == CacheLoop(cache, ps, i - 1, budget_info, price_str)
             phone == ps[i]
             key == phone_key(phone, budget_info, price_str)
         IN  IF acc.raised THEN acc
             ELSE IF key \in DOMAIN acc.cache
             THEN [acc EXCEPT !.phones_with_vectors =
                      Append(@, [phone |-> phone, phone_vector |-> acc.cache[key]])]
             ELSE LET phone_vector == vectorize_phone(phone, budget_info)
                  IN  IF IsRaised(phone_vector["price_value"])
                      THEN [acc EXCEPT !.raised = TRUE]
                      ELSE [cache |-> (key :> phone_vector) @@ acc.cache,
                            phones_with_vectors |->
                                Append(acc.phones_with_vectors,
                                       [phone |-> phone, phone_vector |-> phone_vector]),
                            raised |-> FALSE]

\* VectorMatchingEngine.rank_phones_by_demand: the entries with their match
\* score, sorted by it in descending order (the focus scores and the detailed
\* analysis of an entry are computed from the same two vectors)
rank_phones_by_demand(candidates, demand_vector) ==
    sort_reverse([i \in DOMAIN candidates |->
                     [phone |-> candidates[i].phone,
                      phone_vector |-> candidates[i].phone_vector,
                      match_score |-> calculate_match_score(
                                          candidates[i].phone_vector, demand_vector)]])

\* the sum of f[lo..hi], added up in halves
RECURSIVE SumRange(_, _, _)
SumRange(f, lo, hi) ==
    IF lo = hi THEN f[lo]
    ELSE LET mid == (lo + hi) \div 2
         IN  RAdd(SumRange(f, lo, mid), SumRange(f, mid + 1, hi))

calculate_similarity_score(phone_vector1, phone_vector2) ==
    LET total_diff ==
            SumRange([i \in DOMAIN DimSeq |->
                         RAbs(RSub(phone_vector1[DimSeq[i]], phone_vector2[DimSeq[i]]))],
                     1, Len(DimSeq))
        avg_diff == RDiv(total_diff, Int2Q(Len(DimSeq)))
    IN  RMax(Zero, RMin(OneQ, RSub(OneQ, avg_diff)))

\* VectorMatchingEngine.find_similar_phones: the entries at or above the
\* threshold, sorted by similarity in descending order
find_similar_phones(target_phone_vector, all_phone_vectors, similarity_threshold) ==
    LET similar ==
            SelectSeq([i \in DOMAIN all_phone_vectors |->
                          [phone |-> all_phone_vectors[i].phone,
                           phone_vector |-> all_phone_vectors[i].phone_vector,
                           match_score |->
                               calculate_similarity_score(
                                   target_phone_vector,
                                   all_phone_vectors[i].phone_vector)]],
                      LAMBDA e : RLe(similarity_threshold, e.match_score))
    IN  sort_reverse(similar)

EnginePhones == {Xiaomi13, GalaxyA}
EngineCatalogs == SeqsUpTo(EnginePhones, MaxPhones)

\* 3000元左右 and 3000元 name the target 3000 with tolerance 20% and 10%,
\* 3000-5000元 the target 4000.0, 你好 no budget, 0-0元 makes vectorize_demand
\* raise
EngineTexts ==
    {<<"3000", "yuan", "zuoyou">>,
     <<"3000", "yuan">>,
     <<"3000", "-", "5000", "yuan">>,
     <<"nihao">>,
     <<"0", "-", "0", "yuan">>}

InitEngine ==
    /\ pc = "init"
    /\ _phone_vectors_cache = EmptyCache
    /\ NoText
    /\ phones = <<>>
    /\ requirements = <<>>
    /\ arg_phone = NoPhone
    /\ arg_budget = None
    /\ arg_demand = NoVector
    /\ arg_vector = NoVector
    /\ ret_vector = NoVector
    /\ filtered_phones = NoResult
    /\ prev_filtered = NoResult
    /\ score = Zero

\* recommend(phones, user_input, top_n = MaxTopN, generate_charts = False)
Recommend ==
    /\ \E text \in EngineTexts :
          /\ user_input' = text
          /\ ret_demand' = vectorize_demand(text)
    /\ arg_budget' = IF ret_demand'.raised THEN None ELSE ret_demand'.budget_info
    /\ \E ps \in EngineCatalogs : phones' = ps
    /\ \E vectorized \in
              {IF ret_demand'.raised
               THEN [cache |-> _phone_vectors_cache,
                     phones_with_vectors |-> NoResult, raised |-> TRUE]
               ELSE CacheLoop(_phone_vectors_cache, phones', Len(phones'), arg_budget',
                              target_price_str(user_input', arg_budget'))} :
           /\ _phone_vectors_cache' = vectorized.cache
           /\ phones_with_vectors' =
                 IF vectorized.raised THEN NoResult
                 ELSE vectorized.phones_with_vectors
           /\ pc' = IF vectorized.raised THEN "recommend_raised" ELSE "recommended"
    /\ ranked_phones' =
          IF pc' = "recommended"
          THEN rank_phones_by_demand(phones_with_vectors', ret_demand'.vector)
          ELSE NoResult
    /\ top_n' = MaxTopN
    /\ recommendations' =
          IF pc' = "recommended" THEN Slice(ranked_phones', top_n') ELSE NoResult
    /\ arg_phone' = NoPhone
    /\ results' = NoResult
    /\ ret_vector' = NoVector
    /\ UNCHANGED <<requirements, arg_demand, arg_vector, filtered_phones,
                   prev_filtered, score, analysis, valid>>

\* find_similar_phones(target_phone, all_phones) with the default threshold
FindSimilarPhones ==
    /\ \E target_phone \in EnginePhones, all_phones \in EngineCatalogs :
          /\ arg_phone' = target_phone
          /\ phones' = all_phones
    /\ arg_budget' = NoBudgetGiven
    /\ \E vectorized \in
              {CacheLoop(_phone_vectors_cache, phones', Len(phones'), NoBudgetGiven, <<>>)} :
           /\ _phone_vectors_cache' = vectorized.cache
           /\ phones_with_vectors' = vectorized.phones_with_vectors
    /\ ret_vector' = vectorize_phone(arg_phone', NoBudgetGiven)
    /\ results' = find_similar_phones(ret_vector', phones_with_vectors', Q(7, 10))
    /\ pc' = "similar_found"
    /\ user_input' = <<>>
    /\ top_n' = 0
    /\ ret_demand' = None
    /\ ranked_phones' = NoResult
    /\ recommendations' = NoResult
    /\ UNCHANGED <<requirements, arg_demand, arg_vector, filtered_phones,
                   prev_filtered, score, analysis, valid>>

ClearCache ==
    /\ _phone_vectors_cache' = EmptyCache
    /\ pc' = "cache_cleared"
    /\ UNCHANGED <<phones, requirements, arg_phone, arg_budget, arg_demand,
                   arg_vector, filtered_phones, prev_filtered, score, ret_vector>>
    /\ UNCHANGED textVars

NextEngine == Recommend \/ FindSimilarPhones \/ ClearCache

SpecEngine == InitEngine /\ [][NextEngine]_vars

\* C22: after any sequence of recommend, find_similar_phones and clear_cache
\* calls on one engine, the vector that _vectorize_phones uses for a phone
\* under a budget descriptor equals vectorize_phone(phone, budget) computed
\* afresh, so that results for identical inputs do not depend on earlier
\* calls.
C22_CachedVectorIsFresh ==
    pc \in {"recommended", "similar_found"} =>
        \A i \in DOMAIN phones_with_vectors :
            phones_with_vectors[i].phone_vector
                = vectorize_phone(phones_with_vectors[i].phone, arg_budget)

\* the vector in use differs from the fresh one only in price_value; after
\* find_similar_phones and after a recommend that names no budget it is the
\* fresh one
StaleOnlyInPriceValue ==
    pc \in {"recommended", "similar_found"} =>
        \A i \in DOMAIN phones_with_vectors :
            LET fresh == vectorize_phone(phones_with_vectors[i].phone, arg_budget)
                used == phones_with_vectors[i].phone_vector
            IN  /\ \A x \in Dims \ {"price_value"} : used[x] = fresh[x]
                /\ (pc = "similar_found" \/ ~arg_budget.has_budget) => used = fresh

\* recommend for 3000元 hands out the price_value computed for 3000元左右
StaleVectorUsed ==
    /\ pc = "recommended"
    /\ user_input = <<"3000", "yuan">>
    /\ \E i \in DOMAIN phones_with_vectors :
          phones_with_vectors[i].phone_vector["price_value"]
              # vectorize_phone(phones_with_vectors[i].phone, arg_budget)["price_value"]

-----------------------------------------------------------------------------
(* Repeated parsing: parse_demand is called up to MaxCalls times, each     *)
(* time on one of two EnhancedDemandParser instances, with                 *)
(* validate_requirements calls in between.  An instance holds nothing but  *)
(* the pattern tables that __init__ builds, so a call is recorded in       *)
(* results with the instance it was made on, its text and what it          *)
(* returned.                                                               *)

MaxCalls == 3       \* parse_demand calls in one behaviour

Parsers == {"parser_1", "parser_2"}

ParseTexts ==
    {<<"256", "G", "cunchu">>,
     <<"zhishao", "5000", "mAh", "dianchi">>,
     <<"nihao">>,
     <<"0", "-", "0", "yuan">>}

InitReparse ==
    /\ pc = "init"
    /\ _phone_vectors_cache = EmptyCache
    /\ NoText
    /\ phones = <<>>
    /\ requirements = <<>>
    /\ arg_phone = NoPhone
    /\ arg_budget = None
    /\ arg_demand = NoVector
    /\ arg_vector = NoVector
    /\ ret_vector = NoVector
    /\ filtered_phones = NoResult
    /\ prev_filtered = NoResult
    /\ score = Zero

ParseDemandAgain ==
    /\ Len(results) < MaxCalls
    /\ \E parser \in Parsers, text \in ParseTexts :
          /\ user_input' = text
          /\ analysis' = parse_demand(text)
          /\ results' = Append(results, [parser |-> parser, user_input |-> text,
                                         analysis |-> analysis'])
    /\ pc' = IF analysis'.raised THEN "parse_raised" ELSE "parsed"
    /\ UNCHANGED _phone_vectors_cache
    /\ UNCHANGED <<phones, requirements, arg_phone, arg_budget, arg_demand,
                   arg_vector, filtered_phones, prev_filtered, score,
                   ret_vector, top_n, ret_demand, valid, phones_with_vectors,
                   ranked_phones, recommendations>>

NextReparse == ParseDemandAgain \/ ValidateRequirements

SpecReparse == InitReparse /\ [][NextReparse]_vars

-----------------------------------------------------------------------------
(* The exact requirements of one number category.                          *)

\* the exact requirements of the dimension among the requirements reqs
ExactOf(reqs, dimension) ==
    {i \in DOMAIN reqs : /\ reqs[i].dimension = dimension
                         /\ reqs[i].requirement_type = "exact"}

\* the dimensions of the number categories
NumberDimensions ==
    {number_patterns[c].dimension : c \in DOMAIN number_patterns}

\* C24: for every text, _extract_specific_requirements yields at most one
\* exact requirement per number category (storage, memory, screen size,
\* battery, camera, price): of several mentions, or of several patterns that
\* match, only the first match is kept.
C24_OneExactPerCategory ==
    pc = "parsed" =>
        \A dimension \in NumberDimensions :
            Cardinality(ExactOf(analysis.specific_requirements, dimension)) <= 1

\* each pattern of a category contributes its first match: a category yields
\* one exact requirement per pattern that matches the text
OneExactPerMatchingPattern ==
    pc = "parsed" =>
        \A c \in DOMAIN number_patterns :
            Cardinality(ExactOf(analysis.specific_requirements,
                                number_patterns[c].dimension))
                = Cardinality({k \in DOMAIN number_patterns[c].patterns :
                                  re_search(number_patterns[c].patterns[k],
                                            user_input).matched})

\* 256G存储空间 parsed: the patterns (\d+)G存储 and (\d+)G存储空间 both match
\* and the storage requirement of 256 GB is recorded twice
StorageRecordedTwice ==
    /\ pc = "parsed"
    /\ user_input = <<"256", "G", "cunchu", "kongjian">>
    /\ Cardinality(ExactOf(analysis.specific_requirements, "storage_speed")) = 2

-----------------------------------------------------------------------------
(* The scores of raw values that are off the look-up tables.               *)

\* the keys of the CPU table
CpuNames == {cpu_scores[i][1] : i \in DOMAIN cpu_scores}

\* the entries of the CPU table whose lowered name holds, or is held by, the
\* lowered CPU name
CpuHits(cpu) ==
    {i \in DOMAIN cpu_scores : \/ LowerContains(cpu_scores[i][1], cpu)
                               \/ LowerContains(cpu, cpu_scores[i][1])}

\* the five look-up scores of the phone are numbers of [0, 1]: none raised
LookupsReturn(phone) ==
    /\ InUnit(_calculate_cpu_score(phone.cpu))
    /\ InUnit(_calculate_memory_score(phone.ram_gb))
    /\ InUnit(_calculate_storage_score(phone.storage_gb))
    /\ InUnit(_calculate_battery_score(phone.battery_mah))
    /\ InUnit(_calculate_camera_score(phone.camera_mp))

\* C25 as stated: for the CPU, memory, storage, battery and camera
\* dimensions, every raw value that is not a key of the look-up table (the
\* empty CPU name included) is scored with the fixed default 0.7, and no such
\* value raises.
C25_UnknownValueScoresDefault ==
    /\ LookupsReturn(arg_phone)
    /\ pc = "vectorized" =>
           /\ arg_phone.cpu \notin CpuNames
                  => ret_vector.cpu_performance = Q(7, 10)
           /\ arg_phone.ram_gb \notin DOMAIN memory_scores
                  => ret_vector.memory_capacity = Q(7, 10)
           /\ arg_phone.storage_gb \notin DOMAIN storage_scores
                  => ret_vector.storage_speed = Q(7, 10)
           /\ arg_phone.battery_mah \notin DOMAIN battery_scores
                  => ret_vector.battery_capacity = Q(7, 10)
           /\ arg_phone.camera_mp \notin DOMAIN camera_scores
                  => ret_vector.camera_quality = Q(7, 10)

\* C25: no value off the tables raises, and each is scored with the default
\* of its band: a CPU name with the score of the first table entry whose
\* name holds it or is held by it, ignoring case, and 0.7 without such an
\* entry; memory 0.95 above 16, 0.6 below 4, else 0.7; storage 1.0 above
\* 1024, 0.5 below 64, else 0.7; battery 1.0 above 6000, 0.6 below 3000,
\* else 0.8; camera 1.0 above 108, 0.7 below 12, else 0.8.
C25_UnknownValueScoresBandDefault ==
    /\ LookupsReturn(arg_phone)
    /\ pc = "vectorized" =>
           /\ arg_phone.cpu \notin CpuNames =>
                  ret_vector.cpu_performance =
                      IF CpuHits(arg_phone.cpu) = {} THEN Q(7, 10)
                      ELSE Q(cpu_scores[CHOOSE i \in CpuHits(arg_phone.cpu) :
                                 \A j \in CpuHits(arg_phone.cpu) : i <= j][2], 100)
           /\ arg_phone.ram_gb \notin DOMAIN memory_scores =>
                  ret_vector.memory_capacity =
                      IF arg_phone.ram_gb > 16 THEN Q(95, 100)
                      ELSE IF arg_phone.ram_gb < 4 THEN Q(6, 10) ELSE Q(7, 10)
           /\ arg_phone.storage_gb \notin DOMAIN storage_scores =>
                  ret_vector.storage_speed =
                      IF arg_phone.storage_gb > 1024 THEN OneQ
                      ELSE IF arg_phone.storage_gb < 64 THEN Q(5, 10) ELSE Q(7, 10)
           /\ arg_phone.battery_mah \notin DOMAIN battery_scores =>
                  ret_vector.battery_capacity =
                      IF arg_phone.battery_mah > 6000 THEN OneQ
                      ELSE IF arg_phone.battery_mah < 3000 THEN Q(6, 10) ELSE Q(8, 10)
           /\ arg_phone.camera_mp \notin DOMAIN camera_scores =>
                  ret_vector.camera_quality =
                      IF arg_phone.camera_mp > 108 THEN OneQ
                      ELSE IF arg_phone.camera_mp < 12 THEN Q(7, 10) ELSE Q(8, 10)

\* a phone whose five raw values are all off the tables has been vectorized:
\* the empty CPU name scores 0.95, the score of A17 Pro, and 24 GB of memory
\* 0.95
C25_Witness ==
    /\ pc = "vectorized"
    /\ arg_phone.cpu = ""
    /\ arg_phone.ram_gb = 24 /\ arg_phone.storage_gb = 2048
    /\ arg_phone.battery_mah = 7000 /\ arg_phone.camera_mp = 200
    /\ ret_vector.cpu_performance = Q(95, 100)
    /\ ret_vector.memory_capacity = Q(95, 100)

-----------------------------------------------------------------------------
(* The graded score inside the tolerance band.                             *)

\* the width of the band of an exact or range requirement: tolerance * value,
\* and a tenth of the value when that is not positive
BandWidth(req) ==
    IF RLe(RMul(req.tolerance, req.value), Zero) THEN RMul(req.value, Q(1, 10))
    ELSE RMul(req.tolerance, req.value)

\* the difference between the phone's value and the required one
Deviation(phone, req) ==
    RAbs(RSub(_get_phone_value(phone, req.dimension), req.value))

\* the list holds the one requirement req, exact or range with positive
\* tolerance, and the phone lies within its band
ScoredWithinBand ==
    /\ pc = "exact_scored"
    /\ Len(requirements) = 1
    /\ \/ requirements[1].requirement_type = "exact"
       \/ /\ requirements[1].requirement_type = "range"
          /\ RLt(Zero, requirements[1].tolerance)
    /\ RLt(Zero, requirements[1].value)
    /\ RLe(Deviation(arg_phone, requirements[1]), BandWidth(requirements[1]))

\* the score falls from 1.0 at the required value to floor at the edge of
\* the band, linearly in the deviation
LinearDownTo(floor) ==
    score = RSub(OneQ, RMul(RDiv(Deviation(arg_phone, requirements[1]),
                                 BandWidth(requirements[1])),
                            RSub(OneQ, floor)))

\* C26 as stated: for every exact requirement and every range requirement
\* with positive tolerance, the score of the requirement is 1.0 when the
\* phone's value equals the required value and decreases linearly to 0.7 when
\* the difference equals tolerance * value.
C26_BandScoreDownToSevenTenths ==
    ScoredWithinBand => LinearDownTo(Q(7, 10))

\* C26: inside the band the score of an exact requirement decreases linearly
\* from 1.0 to 0.7 at the edge of the band, and the score of a range
\* requirement with positive tolerance from 1.0 to 0.8.
C26_BandScoreByType ==
    ScoredWithinBand =>
        IF requirements[1].requirement_type = "exact"
        THEN LinearDownTo(Q(7, 10)) ELSE LinearDownTo(Q(8, 10))

\* a phone on the edge of the band of a range requirement scores 0.8
C26_Witness ==
    /\ ScoredWithinBand
    /\ requirements[1].requirement_type = "range"
    /\ Deviation(arg_phone, requirements[1]) = BandWidth(requirements[1])
    /\ score = Q(8, 10)

\* a phone on the edge of the band of an exact requirement scores 0.7
ExactEdgeScored ==
    /\ ScoredWithinBand
    /\ requirements[1].requirement_type = "exact"
    /\ Deviation(arg_phone, requirements[1]) = BandWidth(requirements[1])
    /\ score = Q(7, 10)

-----------------------------------------------------------------------------
(* The slopes of price_value inside and outside the tolerance band.        *)

\* |price - target_price| / target_price of the phone for the drawn budget
PriceRatio(phone) ==
    RDiv(RAbs(RSub(Int2Q(phone.price), arg_budget.target_price)),
         arg_budget.target_price)

\* price_value of the phone for the drawn budget: the returned one for the
\* phone that was vectorized
PriceValue(phone) ==
    IF phone = arg_phone THEN ret_vector["price_value"]
    ELSE _calculate_price_value_score(phone, arg_budget)

\* a phone was vectorized against a descriptor with a target price
TargetModeVectorized ==
    /\ pc = "vectorized"
    /\ ~arg_budget.is_none
    /\ RLt(Zero, arg_budget.target_price)
    /\ arg_phone.price > 0

\* two priced phones within the band at different deviations
InsidePair(p, q) ==
    /\ p.price > 0 /\ q.price > 0
    /\ RLe(PriceRatio(p), arg_budget.tolerance)
    /\ RLe(PriceRatio(q), arg_budget.tolerance)
    /\ RLt(PriceRatio(p), PriceRatio(q))

\* two priced phones beyond the band at different deviations, above the floor
OutsidePair(u, v) ==
    /\ u.price > 0 /\ v.price > 0
    /\ RLt(arg_budget.tolerance, PriceRatio(u))
    /\ RLt(PriceRatio(u), PriceRatio(v))
    /\ RLt(Zero, PriceValue(v))

\* the fall of price_value per unit of deviation between two phones
Slope(p, q) ==
    RDiv(RSub(PriceValue(p), PriceValue(q)), RSub(PriceRatio(q), PriceRatio(p)))

\* C27 as stated: in target-price mode, for every tolerance that budget
\* extraction can produce, price_value falls faster per unit of
\* |price - target_price| / target_price beyond the tolerance than within
\* it, and the score is floored at 0.0.
C27_SteeperOutsideBand ==
    TargetModeVectorized =>
        /\ RLe(Zero, ret_vector["price_value"])
        /\ \A p, q, u, v \in PhoneSet :
               (arg_phone \in {p, q, u, v} /\ InsidePair(p, q) /\ OutsidePair(u, v))
                   => RLt(Slope(p, q), Slope(u, v))

\* C27: price_value is floored at 0.0, falls by 0.3 / tolerance per unit of
\* |price - target_price| / target_price within the band and by 0.5 beyond
\* it: the fall beyond the band is the steeper one only for a tolerance
\* above 0.6, and the slower one for the tolerances 0.1 to 0.5 of the fuzzy,
\* single price and keyword rules.
C27_SlopesOfPriceValue ==
    TargetModeVectorized =>
        /\ RLe(Zero, ret_vector["price_value"])
        /\ \A p, q \in PhoneSet :
               (arg_phone \in {p, q} /\ InsidePair(p, q))
                   => Slope(p, q) = RDiv(Q(3, 10), arg_budget.tolerance)
        /\ \A u, v \in PhoneSet :
               (arg_phone \in {u, v} /\ OutsidePair(u, v))
                   => Slope(u, v) = Q(1, 2)
        /\ \A p, q, u, v \in PhoneSet :
               (arg_phone \in {p, q, u, v} /\ InsidePair(p, q) /\ OutsidePair(u, v))
                   => (RLt(Slope(p, q), Slope(u, v))
                          <=> RLt(Q(6, 10), arg_budget.tolerance))

\* 3000元左右 (tolerance 0.2): between the phones priced 3000 and 2499 the
\* score falls by 1.5 per unit of deviation, between the ones priced 3999
\* and 5999, beyond the band, by 0.5
C27_Witness ==
    /\ TargetModeVectorized
    /\ arg_budget.tolerance = Q(2, 10)
    /\ \E q \in PhoneSet :
          /\ InsidePair(q, arg_phone)
          /\ Slope(q, arg_phone) = Q(3, 2)
    /\ \E u, v \in PhoneSet :
          /\ OutsidePair(u, v)
          /\ Slope(u, v) = Q(1, 2)

\* a descriptor with a tolerance above 0.6, where the fall beyond the band is
\* the steeper one
WideBandVectorized ==
    /\ TargetModeVectorized
    /\ RLt(Q(6, 10), arg_budget.tolerance)
    /\ \E p, q, u, v \in PhoneSet :
          /\ arg_phone \in {p, q, u, v}
          /\ InsidePair(p, q) /\ OutsidePair(u, v)
          /\ RLt(Slope(p, q), Slope(u, v))

-----------------------------------------------------------------------------
(* The phones a text range lets through the pre-filter.                    *)

\* the request is the one range 'a-b元' with 0 < a < b, parsed into the one
\* range requirement of value (a+b)/2 and tolerance (b-a)/value, and the
\* pre-filter has run on it
RangeTextFiltered ==
    /\ pc # "init"
    /\ Len(user_input) = 4
    /\ user_input[1] \in Digits /\ user_input[2] = "-"
    /\ user_input[3] \in Digits /\ user_input[4] = "yuan"
    /\ 0 < int(user_input[1]) /\ int(user_input[1]) < int(user_input[3])
    /\ ~analysis.raised
    /\ Len(analysis.specific_requirements) = 1
    /\ analysis.specific_requirements[1].requirement_type = "range"
    /\ analysis.specific_requirements[1].value =
           Q(int(user_input[1]) + int(user_input[3]), 2)
    /\ RMul(analysis.specific_requirements[1].tolerance,
            analysis.specific_requirements[1].value) =
           Int2Q(int(user_input[3]) - int(user_input[1]))

\* the phones of the catalog that the pre-filter kept are the ones priced
\* from lo to hi
KeptArePricedWithin(lo, hi) ==
    \A i \in DOMAIN phones :
        InSeq(phones[i], prev_filtered) <=> (lo <= phones[i].price /\ phones[i].price <= hi)

\* C28: for the range requirement built from a text range 'a-b' with
\* 0 < a < b, _check_requirement_match accepts a phone if and only if its
\* value lies in the interval [a, b].
C28_RangeAcceptsStatedInterval ==
    RangeTextFiltered =>
        KeptArePricedWithin(int(user_input[1]), int(user_input[3]))

\* the accepted values are those within b - a of the midpoint, the interval
\* [a - (b-a)/2, b + (b-a)/2], twice as wide as the stated one
RangeAcceptsDoubleInterval ==
    RangeTextFiltered =>
        LET a == int(user_input[1])
            b == int(user_input[3])
        IN  \A i \in DOMAIN phones :
                InSeq(phones[i], prev_filtered)
                    <=> /\ 2 * a - (b - a) <= 2 * phones[i].price
                        /\ 2 * phones[i].price <= 2 * b + (b - a)

\* 4000-5000元: the phone priced 3999 passes the pre-filter
PhoneBelowRangeKept ==
    /\ RangeTextFiltered
    /\ user_input = <<"4000", "-", "5000", "yuan">>
    /\ \E i \in DOMAIN prev_filtered : prev_filtered[i].price = 3999

-----------------------------------------------------------------------------
(* The pre-filter against the scorer.                                      *)

\* _apply_bonuses_and_penalties multiplies the score of the phone by a
\* penalty factor for some minimum or maximum requirement
Penalised(phone, reqs) ==
    \E k \in DOMAIN reqs :
        \/ /\ reqs[k].requirement_type = "minimum"
           /\ RLt(_get_phone_value(phone, reqs[k].dimension), reqs[k].value)
        \/ /\ reqs[k].requirement_type = "maximum"
           /\ RLt(reqs[k].value, _get_phone_value(phone, reqs[k].dimension))

\* the run took the fallback to the whole catalog
FallbackTaken == prev_filtered = <<>> /\ filtered_phones = phones

PenaltyAfterFallback ==
    /\ pc = "matched"
    /\ FallbackTaken
    /\ \E i \in DOMAIN ranked_phones :
          /\ Penalised(ranked_phones[i].phone, analysis.specific_requirements)
          /\ RLt(ranked_phones[i].match_score,
                 RMin(OneQ, ranked_phones[i].comprehensive_score))

\* the same agreement on the drawn requirement lists: a phone that
\* _pre_filter_phones kept scores at least 0.7 on every requirement of the
\* list and violates no minimum or maximum
KeptPhonesScoreHigh ==
    (pc \in {"filtered", "extended"} /\ requirements # <<>>) =>
        \A i \in DOMAIN filtered_phones :
            /\ \A k \in DOMAIN requirements :
                   RLe(Q(7, 10), RequirementScore(filtered_phones[i], requirements[k]))
            /\ ~Penalised(filtered_phones[i], requirements)

\* a kept phone on the edge of the band of an exact requirement: its score
\* is 0.7
KeptPhoneOnTheEdge ==
    /\ pc = "filtered"
    /\ Len(requirements) = 1
    /\ requirements[1].requirement_type = "exact"
    /\ \E i \in DOMAIN filtered_phones :
          RequirementScore(filtered_phones[i], requirements[1]) = Q(7, 10)

-----------------------------------------------------------------------------
(* The branch of _calculate_price_value_score that extracted budgets take. *)

\* the descriptor sends _calculate_price_value_score into its target-price
\* branch
TakesTargetBranch(user_budget) ==
    /\ ~user_budget.is_none
    /\ RLt(Zero, user_budget.target_price)

\* the descriptor sends it into the min/max range branch
TakesRangeBranch(user_budget) ==
    /\ ~user_budget.is_none
    /\ ~RLt(Zero, user_budget.target_price)
    /\ RLt(Zero, user_budget.min_budget)
    /\ RLt(Zero, user_budget.max_budget)

\* a descriptor with positive bounds has a positive target price
BoundsComeWithTarget(user_budget) ==
    /\ (RLt(Zero, user_budget.min_budget) /\ RLt(Zero, user_budget.max_budget))
           => RLt(Zero, user_budget.target_price)
    /\ ~TakesRangeBranch(user_budget)

\* C30: every budget descriptor that either extractor returns with
\* min_budget > 0 and max_budget > 0 has target_price > 0, so
\* _calculate_price_value_score takes the target-price branch for it and
\* never the min/max range branch.
C30_BoundsImplyTargetPrice ==
    /\ pc \in {"parsed", "requirements_validated"}
           => BoundsComeWithTarget(analysis.budget_info)
    /\ pc \in {"demand_vectorized", "demand_validated"}
           => BoundsComeWithTarget(ret_demand.budget_info)

\* a text range parsed into a descriptor with both bounds and the target
\* price between them
C30_Witness ==
    /\ pc = "parsed"
    /\ analysis.budget_info.has_budget
    /\ RLt(Zero, analysis.budget_info.min_budget)
    /\ RLt(analysis.budget_info.min_budget, analysis.budget_info.target_price)
    /\ RLt(analysis.budget_info.target_price, analysis.budget_info.max_budget)
    /\ TakesTargetBranch(analysis.budget_info)

\* the keyword rule of extract_budget_info: bounds and target all positive
KeywordBudgetHasTarget ==
    /\ pc = "demand_vectorized"
    /\ FirstBudgetRule(user_input) = "keyword"
    /\ RLt(Zero, ret_demand.budget_info.min_budget)
    /\ TakesTargetBranch(ret_demand.budget_info)

\* recommend never vectorizes a phone against a descriptor of the range
\* branch
RangeBranchNotTakenInRecommend ==
    pc = "recommended" => ~TakesRangeBranch(arg_budget)

\* nor does match_phones
RangeBranchNotTakenInMatchPhones ==
    (pc \in {"matched", "match_raised"} /\ ~analysis.raised)
        => ~TakesRangeBranch(analysis.budget_info)

\* recommend has vectorized a catalog against a descriptor with bounds
RecommendedWithBudget ==
    /\ pc = "recommended"
    /\ phones # <<>>
    /\ RLt(Zero, arg_budget.min_budget)
    /\ TakesTargetBranch(arg_budget)

=============================================================================
